---- MODULE Spec2Model ----
(***************************************************************************)
(* Conway polyhedron notation: the mesh core (Polyhedron with its vertex,  *)
(* edge and face maps and the vertex-pair edge lookup), the five seeds,    *)
(* the operators d a t k j o e g s, and the notation parser that applies   *)
(* them right-to-left on a clone of the seed.                              *)
(*                                                                         *)
(* Vertex positions are floating-point and are not represented.  The two   *)
(* places where they decide connectivity-relevant control flow are kept    *)
(* as inputs: the outcome of the test normal.Dot(outward) < 0 in           *)
(* ensureCounterClockwise (the winding mode of a step) and the order in    *)
(* which Go ranges over a map (the iteration order of a step).             *)
(***************************************************************************)
EXTENDS Integers, Sequences, FiniteSets, TLC

\* ---------------------------------------------------------------- bounds
\* every string of at most MaxLen characters is parsed
MaxLen == 2
\* and every string of at most MaxOps operator symbols with one seed symbol
\* put anywhere into it
MaxOps == 2
\* as long as it denotes a mesh of at most MaxEdges edges
MaxEdges == 120

\* the absent identifier, and the nil *Polyhedron and nil error
Nil == 0
NilPolyhedron == [nil |-> TRUE]
NilError == [nil |-> TRUE]
NilVector == [nil |-> TRUE]

\* ------------------------------------------------- ranging over a Go map
IterOrders == {"asc", "desc"}
Windings == {"keep", "mixed"}

RECURSIVE SortAsc(_)
SortAsc(S) ==
    IF S = {} THEN <<>>
    ELSE LET m == CHOOSE x \in S : \A y \in S : x <= y
         IN  <<m>> \o SortAsc(S \ {m})

Reverse(s) == [i \in 1..Len(s) |-> s[Len(s) + 1 - i]]

\* the keys of a map in the order one `for ... range` visits them
RangeKeys(S, ord) ==
    IF ord = "asc" THEN SortAsc(S) ELSE Reverse(SortAsc(S))

\* ------------------------------------------------------- loops over keys
\* acc after the loop body has run for keys[i], keys[i+1], ... in turn.
\* TLC evaluates operator arguments lazily; comparing the domains makes it
\* evaluate the accumulator of each iteration before the next one starts,
\* which keeps its evaluation stack shallow.
RECURSIVE FoldKeys(_, _, _, _)
FoldKeys(Body(_, _), acc, keys, i) ==
    IF i > Len(keys) THEN acc
    ELSE LET next == Body(acc, keys[i])
         IN  IF DOMAIN next = DOMAIN next
             THEN FoldKeys(Body, next, keys, i + 1)
             ELSE next

\* ------------------------------------------------------------- mesh core
NewPolyhedron(name) ==
    [Name |-> name, Vertices |-> <<>>, Edges |-> <<>>, Faces |-> <<>>,
     nextID |-> 0, edgeLookup |-> <<>>, cachedCentroid |-> FALSE]

\* AddVertex taking the smallest identifier no entity of the mesh carries
AddVertexReusingID(p) ==
    LET used == DOMAIN p.Vertices \cup DOMAIN p.Edges \cup DOMAIN p.Faces
        id == CHOOSE i \in 1..(p.nextID + 1) :
                  i \notin used /\ \A j \in 1..(i - 1) : j \in used
    IN  [p EXCEPT !.nextID = IF id > @ THEN id ELSE @,
                  !.Vertices = @ @@ (id :> [Edges |-> {}, Faces |-> {}]),
                  !.cachedCentroid = FALSE]

\* the new vertex is p.nextID + 1
AddVertex(p) ==
    LET id == p.nextID + 1
    IN  [p EXCEPT !.nextID = id,
                  !.Vertices = @ @@ (id :> [Edges |-> {}, Faces |-> {}]),
                  !.cachedCentroid = FALSE]

\* makeEdgeKey without the swap of its arguments
makeEdgeKeyOrdered(v1ID, v2ID) == <<v1ID, v2ID>>

makeEdgeKey(v1ID, v2ID) ==
    IF v1ID > v2ID THEN <<v2ID, v1ID>> ELSE <<v1ID, v2ID>>

Find(el, v1ID, v2ID) ==
    IF makeEdgeKey(v1ID, v2ID) \in DOMAIN el
    THEN el[makeEdgeKey(v1ID, v2ID)] ELSE Nil

\* the edge returned is Find(result.edgeLookup, v1, v2)
addEdgeUnsafe(p, v1, v2) ==
    IF Find(p.edgeLookup, v1, v2) # Nil THEN p
    ELSE LET id == p.nextID + 1
         IN  [p EXCEPT !.nextID = id,
                       !.Edges = @ @@ (id :> [V1 |-> v1, V2 |-> v2, Faces |-> {}]),
                       !.edgeLookup = @ @@ (makeEdgeKey(v1, v2) :> id),
                       !.Vertices[v1].Edges = @ \cup {id},
                       !.Vertices[v2].Edges = @ \cup {id}]

\* outcome of normal.Dot(outward) < 0 for the face that gets identifier fid
NormalPointsInward(wind, fid) ==
    wind = "mixed" /\ fid % 2 = 1

ensureCounterClockwise(vertices, inward) ==
    IF Len(vertices) < 3 THEN vertices
    ELSE IF inward THEN Reverse(vertices) ELSE vertices

RECURSIVE AddFaceLoop(_, _, _, _)
AddFaceLoop(p, f, vertices, i) ==
    IF i > Len(vertices) THEN p
    ELSE LET v1 == vertices[i]
             v2 == vertices[(i % Len(vertices)) + 1]
             q  == addEdgeUnsafe(p, v1, v2)
             e  == Find(q.edgeLookup, v1, v2)
         IN  AddFaceLoop([q EXCEPT !.Faces[f].Edges = Append(@, e),
                                   !.Edges[e].Faces = @ \cup {f},
                                   !.Vertices[v1].Faces = @ \cup {f}],
                         f, vertices, i + 1)

\* the new face is p.nextID + 1
AddFace(p, vertices, wind) ==
    LET f == p.nextID + 1
        centred == Cardinality(DOMAIN p.Vertices) > 3
        vs == IF centred
              THEN ensureCounterClockwise(vertices, NormalPointsInward(wind, f))
              ELSE vertices
    IN  AddFaceLoop([p EXCEPT !.nextID = f,
                              !.Faces = @ @@ (f :> [Vertices |-> vs, Edges |-> <<>>]),
                              !.cachedCentroid = IF centred THEN TRUE ELSE @],
                    f, vs, 1)

\* positions move; the connectivity stays and the centroid cache is dropped
Normalize(p) == [p EXCEPT !.cachedCentroid = FALSE]

EulerCharacteristic(p) ==
    Cardinality(DOMAIN p.Vertices) - Cardinality(DOMAIN p.Edges)
        + Cardinality(DOMAIN p.Faces)

Clone(p, ord, wind) ==
    LET vs == FoldKeys(LAMBDA acc, v : [newP |-> AddVertex(acc.newP),
                                        vertexMap |-> acc.vertexMap
                                            @@ (v :> acc.newP.nextID + 1)],
                       [newP |-> NewPolyhedron(p.Name), vertexMap |-> <<>>],
                       RangeKeys(DOMAIN p.Vertices, ord), 1)
    IN  FoldKeys(LAMBDA newP, f :
                    LET fv == p.Faces[f].Vertices
                        newVertices == [k \in 1..Len(fv) |-> vs.vertexMap[fv[k]]]
                    IN  AddFace(newP, newVertices, wind),
                 vs.newP, RangeKeys(DOMAIN p.Faces, ord), 1)

\* ------------------------------------------------- mesh core, removal
Restrict(f, S) == [x \in S |-> f[x]]

Range(seq) == {seq[i] : i \in 1..Len(seq)}

\* f.Edges = append(f.Edges[:i], f.Edges[i+1:]...) for the first i with
\* f.Edges[i].ID = e
RemoveFirst(edges, e) ==
    IF e \notin Range(edges) THEN edges
    ELSE LET i == CHOOSE j \in 1..Len(edges) :
                      /\ edges[j] = e
                      /\ \A h \in 1..(j - 1) : edges[h] # e
         IN  SubSeq(edges, 1, i - 1) \o SubSeq(edges, i + 1, Len(edges))

\* EdgeLookup.Remove
Remove(el, v1ID, v2ID) ==
    Restrict(el, DOMAIN el \ {makeEdgeKey(v1ID, v2ID)})

removeEdgeUnsafe(p, e) ==
    [p EXCEPT
        !.Vertices = [v \in DOMAIN p.Vertices |->
                        IF v \in {p.Edges[e].V1, p.Edges[e].V2}
                        THEN [p.Vertices[v] EXCEPT !.Edges = @ \ {e}]
                        ELSE p.Vertices[v]],
        !.Faces = [f \in DOMAIN p.Faces |->
                        IF f \in p.Edges[e].Faces
                        THEN [p.Faces[f] EXCEPT !.Edges = RemoveFirst(@, e)]
                        ELSE p.Faces[f]],
        !.edgeLookup = Remove(p.edgeLookup, p.Edges[e].V1, p.Edges[e].V2),
        !.Edges = Restrict(p.Edges, DOMAIN p.Edges \ {e})]

\* removeFaceUnsafe without its loop over f.Edges
removeFaceUnsafeVerticesOnly(p, f) ==
    [p EXCEPT
        !.Vertices = [v \in DOMAIN p.Vertices |->
                        IF v \in Range(p.Faces[f].Vertices)
                        THEN [p.Vertices[v] EXCEPT !.Faces = @ \ {f}]
                        ELSE p.Vertices[v]],
        !.Faces = Restrict(p.Faces, DOMAIN p.Faces \ {f})]

removeFaceUnsafe(p, f) ==
    [p EXCEPT
        !.Vertices = [v \in DOMAIN p.Vertices |->
                        IF v \in Range(p.Faces[f].Vertices)
                        THEN [p.Vertices[v] EXCEPT !.Faces = @ \ {f}]
                        ELSE p.Vertices[v]],
        !.Edges = [e \in DOMAIN p.Edges |->
                        IF e \in Range(p.Faces[f].Edges)
                        THEN [p.Edges[e] EXCEPT !.Faces = @ \ {f}]
                        ELSE p.Edges[e]],
        !.Faces = Restrict(p.Faces, DOMAIN p.Faces \ {f})]

\* removeVertexUnsafe leaving out the loop over the vertex's faces
removeVertexUnsafeEdgesOnly(p, v, ord) ==
    [FoldKeys(LAMBDA acc, e : removeEdgeUnsafe(acc, e),
              p, RangeKeys(p.Vertices[v].Edges, ord), 1)
        EXCEPT !.Vertices = Restrict(@, DOMAIN @ \ {v}),
               !.cachedCentroid = FALSE]

removeVertexUnsafe(p, v, ord) ==
    [FoldKeys(LAMBDA acc, f : removeFaceUnsafe(acc, f),
              FoldKeys(LAMBDA acc, e : removeEdgeUnsafe(acc, e),
                       p, RangeKeys(p.Vertices[v].Edges, ord), 1),
              RangeKeys(p.Vertices[v].Faces, ord), 1)
        EXCEPT !.Vertices = Restrict(@, DOMAIN @ \ {v}),
               !.cachedCentroid = FALSE]

\* ----------------------------------------------------------------- seeds
\* faces holds indices into the seed's vertices slice, whose i-th entry is
\* the vertex with identifier i + 1
BuildSeed(name, n, faces, wind) ==
    LET withVertices == FoldKeys(LAMBDA p, k : AddVertex(p),
                                 NewPolyhedron(name), [k \in 1..n |-> k], 1)
        withFaces == FoldKeys(LAMBDA p, face :
                                 AddFace(p, [k \in 1..Len(face) |-> face[k] + 1], wind),
                              withVertices, faces, 1)
    IN  Normalize(withFaces)

Tetrahedron(wind) ==
    BuildSeed("Tetrahedron", 4,
        << <<0, 1, 2>>, <<0, 1, 3>>, <<0, 2, 3>>, <<1, 2, 3>> >>, wind)

Cube(wind) ==
    BuildSeed("Cube", 8,
        << <<0, 2, 3, 1>>, <<4, 5, 7, 6>>, <<0, 1, 5, 4>>,
           <<2, 6, 7, 3>>, <<0, 4, 6, 2>>, <<1, 3, 7, 5>> >>, wind)

\* Octahedron with a wrong index in its last face
OctahedronWrongFace(wind) ==
    BuildSeed("Octahedron", 6,
        << <<0, 2, 4>>, <<0, 4, 3>>, <<0, 3, 5>>, <<0, 5, 2>>,
           <<1, 4, 2>>, <<1, 3, 4>>, <<1, 5, 3>>, <<1, 2, 4>> >>, wind)

Octahedron(wind) ==
    BuildSeed("Octahedron", 6,
        << <<0, 2, 4>>, <<0, 4, 3>>, <<0, 3, 5>>, <<0, 5, 2>>,
           <<1, 4, 2>>, <<1, 3, 4>>, <<1, 5, 3>>, <<1, 2, 5>> >>, wind)

Dodecahedron(wind) ==
    BuildSeed("Dodecahedron", 20,
        << <<0, 8, 4, 14, 12>>, <<0, 12, 2, 17, 16>>, <<0, 16, 1, 9, 8>>,
           <<1, 16, 17, 3, 13>>, <<1, 13, 15, 5, 9>>, <<2, 12, 14, 6, 10>>,
           <<2, 10, 11, 3, 17>>, <<3, 11, 7, 15, 13>>, <<4, 8, 9, 5, 18>>,
           <<4, 18, 19, 6, 14>>, <<5, 15, 7, 19, 18>>, <<6, 19, 7, 11, 10>> >>, wind)

Icosahedron(wind) ==
    BuildSeed("Icosahedron", 12,
        << <<0, 2, 8>>, <<0, 8, 4>>, <<0, 4, 6>>, <<0, 6, 10>>, <<0, 10, 2>>,
           <<3, 1, 9>>, <<3, 9, 5>>, <<3, 5, 7>>, <<3, 7, 11>>, <<3, 11, 1>>,
           <<2, 10, 7>>, <<2, 7, 5>>, <<2, 5, 8>>,
           <<8, 5, 9>>, <<8, 9, 4>>,
           <<4, 9, 1>>, <<4, 1, 6>>,
           <<6, 1, 11>>, <<6, 11, 10>>,
           <<10, 11, 7>> >>, wind)

\* nil for a symbol that is no seed
GetSeed(symbol, wind) ==
    CASE symbol = "T" -> Tetrahedron(wind)
      [] symbol = "C" -> Cube(wind)
      [] symbol = "O" -> Octahedron(wind)
      [] symbol = "D" -> Dodecahedron(wind)
      [] symbol = "I" -> Icosahedron(wind)
      [] OTHER -> NilPolyhedron

\* first element of seq that satisfies Test, Nil when there is none
RECURSIVE FirstFrom(_, _, _)
FirstFrom(seq, Test(_), i) ==
    IF i > Len(seq) THEN Nil
    ELSE IF Test(seq[i]) THEN seq[i]
    ELSE FirstFrom(seq, Test, i + 1)

FirstIn(seq, Test(_)) == FirstFrom(seq, Test, 1)

\* the mesh of TestValidateManifoldErrors: the faces of a tetrahedron and
\* the first face once more
ExtraFaceTetrahedron(wind) ==
    LET withVertices == FoldKeys(LAMBDA p, k : AddVertex(p),
                                 NewPolyhedron("test"), <<1, 2, 3, 4>>, 1)
    IN  FoldKeys(LAMBDA p, face : AddFace(p, face, wind), withVertices,
                 << <<1, 2, 3>>, <<1, 2, 4>>, <<2, 3, 4>>, <<1, 3, 4>>,
                    <<1, 2, 3>> >>, 1)

\* two tetrahedra with one vertex in common: every edge lies on two faces,
\* and the six faces at vertex 1 fall into two closed fans of three
TwoTetrahedra(wind) ==
    LET withVertices == FoldKeys(LAMBDA p, k : AddVertex(p),
                                 NewPolyhedron("two"), <<1, 2, 3, 4, 5, 6, 7>>, 1)
    IN  FoldKeys(LAMBDA p, face : AddFace(p, face, wind), withVertices,
                 << <<1, 2, 3>>, <<1, 2, 4>>, <<1, 3, 4>>, <<2, 3, 4>>,
                    <<1, 5, 6>>, <<1, 5, 7>>, <<1, 6, 7>>, <<5, 6, 7>> >>, 1)

InSeq(seq, x) == \E i \in 1..Len(seq) : seq[i] = x

\* ------------------------------------------------- edges around a vertex
\* faceContainsEdge that takes every face to contain the edge
faceContainsEdgeAlways(p, face, edgeID) == Len(p.Faces[face].Edges) > 0

faceContainsEdge(p, face, edgeID) == InSeq(p.Faces[face].Edges, edgeID)

\* edgeConnectsToVertex that takes every edge to end in the vertex
edgeConnectsToVertexAlways(p, edge, vertexID) == edge \in DOMAIN p.Edges

edgeConnectsToVertex(p, edge, vertexID) ==
    p.Edges[edge].V1 = vertexID \/ p.Edges[edge].V2 = vertexID

findNextEdgeInFace(p, face, currentEdgeID, vertexID, visited) ==
    FirstIn(p.Faces[face].Edges,
            LAMBDA e : /\ e # currentEdgeID
                       /\ e \notin visited
                       /\ edgeConnectsToVertex(p, e, vertexID))

findNextEdgeInFaces(p, v, currentEdge, visited, ord) ==
    LET faces == RangeKeys(p.Vertices[v].Faces, ord)
        f == FirstIn(faces,
                LAMBDA face : /\ faceContainsEdge(p, face, currentEdge)
                              /\ findNextEdgeInFace(p, face, currentEdge, v, visited) # Nil)
    IN  IF f = Nil THEN Nil
        ELSE findNextEdgeInFace(p, f, currentEdge, v, visited)

findNextUnvisitedEdge(edges, visited) ==
    FirstIn(edges, LAMBDA e : e \notin visited)

RECURSIVE OrderEdgesLoop(_, _, _, _, _, _, _)
OrderEdgesLoop(p, v, edges, ordered, visited, current, ord) ==
    IF Len(ordered) >= Len(edges) THEN ordered
    ELSE LET linked == findNextEdgeInFaces(p, v, current, visited, ord)
             nextEdge == IF linked # Nil THEN linked
                         ELSE findNextUnvisitedEdge(edges, visited)
         IN  IF nextEdge = Nil THEN ordered
             ELSE OrderEdgesLoop(p, v, edges, Append(ordered, nextEdge),
                                 visited \cup {nextEdge}, nextEdge, ord)

\* orderEdgesAroundVertex returning the edges as the map holds them
orderEdgesAroundVertexUnordered(p, v, ord) ==
    RangeKeys(p.Vertices[v].Edges, ord)

orderEdgesAroundVertex(p, v, ord) ==
    LET edges == RangeKeys(p.Vertices[v].Edges, ord)
    IN  IF Len(edges) <= 2 THEN edges
        ELSE OrderEdgesLoop(p, v, edges, <<edges[1]>>, {edges[1]}, edges[1], ord)

\* ------------------------------------------------- faces around a vertex
\* zero-based index of x in seq from the i-th element on, -1 if absent
RECURSIVE IndexFrom(_, _, _)
IndexFrom(seq, x, i) ==
    IF i > Len(seq) THEN -1
    ELSE IF seq[i] = x THEN i - 1
    ELSE IndexFrom(seq, x, i + 1)

FindEdgeIndex(p, face, edge) == IndexFrom(p.Faces[face].Edges, edge, 1)

facesShareEdge(p, face1, face2) ==
    \E i \in 1..Len(p.Faces[face1].Edges) :
        FindEdgeIndex(p, face2, p.Faces[face1].Edges[i]) >= 0

findNextFaceInEdges(p, v, currentFace, visited, ord) ==
    LET Candidate(edge) ==
            FirstIn(RangeKeys(p.Edges[edge].Faces, ord),
                    LAMBDA face : /\ face # currentFace
                                  /\ face \notin visited
                                  /\ facesShareEdge(p, currentFace, face))
        e == FirstIn(RangeKeys(p.Vertices[v].Edges, ord),
                     LAMBDA edge : Candidate(edge) # Nil)
    IN  IF e = Nil THEN Nil ELSE Candidate(e)

findNextUnvisitedFace(faces, visited) ==
    FirstIn(faces, LAMBDA f : f \notin visited)

RECURSIVE OrderFacesLoop(_, _, _, _, _, _, _)
OrderFacesLoop(p, v, faces, ordered, visited, current, ord) ==
    IF Len(ordered) >= Len(faces) THEN ordered
    ELSE LET linked == findNextFaceInEdges(p, v, current, visited, ord)
             nextFace == IF linked # Nil THEN linked
                         ELSE findNextUnvisitedFace(faces, visited)
         IN  IF nextFace = Nil THEN ordered
             ELSE OrderFacesLoop(p, v, faces, Append(ordered, nextFace),
                                 visited \cup {nextFace}, nextFace, ord)

OrderFacesAroundVertex(p, v, ord) ==
    LET faces == RangeKeys(p.Vertices[v].Faces, ord)
    IN  IF Len(faces) <= 2 THEN faces
        ELSE OrderFacesLoop(p, v, faces, <<faces[1]>>, {faces[1]}, faces[1], ord)

\* ------------------------------------------------------------ validation
ValidationError(type) == [Type |-> type]

\* IsValid without its loop over the vertices
IsValidSkipsVertexDegree(p) ==
    /\ EulerCharacteristic(p) = 2
    /\ \A e \in DOMAIN p.Edges : Cardinality(p.Edges[e].Faces) \in {1, 2}
    /\ \A f \in DOMAIN p.Faces : Len(p.Faces[f].Vertices) >= 3

\* Vertex.Degree is len(v.Edges), Face.Degree is len(f.Vertices)
IsValid(p) ==
    IF EulerCharacteristic(p) # 2 THEN FALSE
    ELSE IF \E v \in DOMAIN p.Vertices : Cardinality(p.Vertices[v].Edges) < 3
    THEN FALSE
    ELSE IF \E e \in DOMAIN p.Edges :
               \/ Cardinality(p.Edges[e].Faces) > 2
               \/ Cardinality(p.Edges[e].Faces) = 0
    THEN FALSE
    ELSE IF \E f \in DOMAIN p.Faces : Len(p.Faces[f].Vertices) < 3 THEN FALSE
    ELSE TRUE

\* the error's Type; which vertex, face or edge the message names depends
\* on the order of the range statements, the Type does not
ValidateTopology(p) ==
    LET euler == Cardinality(DOMAIN p.Vertices) - Cardinality(DOMAIN p.Edges)
                     + Cardinality(DOMAIN p.Faces)
    IN  IF euler # 2 THEN ValidationError("Topology")
        ELSE IF \E vertex \in DOMAIN p.Vertices :
                   Cardinality(p.Vertices[vertex].Edges) < 3
        THEN ValidationError("Topology")
        ELSE IF \E face \in DOMAIN p.Faces : Len(p.Faces[face].Vertices) < 3
        THEN ValidationError("Topology")
        ELSE IF \E edge \in DOMAIN p.Edges :
                   \/ Cardinality(p.Edges[edge].Faces) = 0
                   \/ Cardinality(p.Edges[edge].Faces) > 2
        THEN ValidationError("Topology")
        ELSE NilError

\* the unexported copy of OrderFacesAroundVertex, with its helpers inlined
orderFacesAroundVertex(p, v, o) == OrderFacesAroundVertex(p, v, o)

validateVertexManifold(p, vertex, o) ==
    IF Cardinality(p.Vertices[vertex].Faces) < 3
    THEN ValidationError("Manifold")
    ELSE IF Len(orderFacesAroundVertex(p, vertex, o))
               # Cardinality(p.Vertices[vertex].Faces)
    THEN ValidationError("Manifold")
    ELSE NilError

ValidateManifold(p, o) ==
    IF \E edge \in DOMAIN p.Edges :
           /\ Cardinality(p.Edges[edge].Faces) # 2
           /\ Cardinality(p.Edges[edge].Faces) # 1
    THEN ValidationError("Manifold")
    ELSE IF \E vertex \in DOMAIN p.Vertices :
               validateVertexManifold(p, vertex, o) # NilError
    THEN ValidationError("Manifold")
    ELSE NilError

\* ------------------------------------------------------------- operators
\* the new mesh with one vertex per key, and the map key -> new vertex
AddVertexPerKey(newP, keys) ==
    FoldKeys(LAMBDA acc, k : [m |-> AddVertex(acc.m),
                              map |-> acc.map @@ (k :> acc.m.nextID + 1)],
             [m |-> newP, map |-> <<>>], keys, 1)

\* DualOp.Apply making a face only for a vertex on four or more faces
DualApplySkipsDegreeThree(p, ord, wind) ==
    LET fv == AddVertexPerKey(NewPolyhedron("d" \o p.Name),
                              RangeKeys(DOMAIN p.Faces, ord))
        faceVertices == fv.map
        withEdges ==
            FoldKeys(LAMBDA dual, edge :
                        IF Cardinality(p.Edges[edge].Faces) # 2 THEN dual
                        ELSE LET faces == RangeKeys(p.Edges[edge].Faces, ord)
                             IN  addEdgeUnsafe(dual, faceVertices[faces[1]],
                                               faceVertices[faces[2]]),
                     fv.m, RangeKeys(DOMAIN p.Edges, ord), 1)
        withFaces ==
            FoldKeys(LAMBDA dual, vertex :
                        IF Cardinality(p.Vertices[vertex].Faces) >= 4
                        THEN LET orderedFaces == OrderFacesAroundVertex(p, vertex, ord)
                             IN  AddFace(dual,
                                         [i \in 1..Len(orderedFaces) |->
                                             faceVertices[orderedFaces[i]]], wind)
                        ELSE dual,
                     withEdges, RangeKeys(DOMAIN p.Vertices, ord), 1)
    IN  Normalize(withFaces)

DualApply(p, ord, wind) ==
    LET fv == AddVertexPerKey(NewPolyhedron("d" \o p.Name),
                              RangeKeys(DOMAIN p.Faces, ord))
        faceVertices == fv.map
        withEdges ==
            FoldKeys(LAMBDA dual, edge :
                        IF Cardinality(p.Edges[edge].Faces) # 2 THEN dual
                        ELSE LET faces == RangeKeys(p.Edges[edge].Faces, ord)
                             IN  addEdgeUnsafe(dual, faceVertices[faces[1]],
                                               faceVertices[faces[2]]),
                     fv.m, RangeKeys(DOMAIN p.Edges, ord), 1)
        withFaces ==
            FoldKeys(LAMBDA dual, vertex :
                        IF Cardinality(p.Vertices[vertex].Faces) >= 3
                        THEN LET orderedFaces == OrderFacesAroundVertex(p, vertex, ord)
                             IN  AddFace(dual,
                                         [i \in 1..Len(orderedFaces) |->
                                             faceVertices[orderedFaces[i]]], wind)
                        ELSE dual,
                     withEdges, RangeKeys(DOMAIN p.Vertices, ord), 1)
    IN  Normalize(withFaces)

AmboApply(p, ord, wind) ==
    LET ev == AddVertexPerKey(NewPolyhedron("a" \o p.Name),
                              RangeKeys(DOMAIN p.Edges, ord))
        edgeVertices == ev.map
        withFaces ==
            FoldKeys(LAMBDA ambo, face :
                        AddFace(ambo,
                                [i \in 1..Len(p.Faces[face].Edges) |->
                                    edgeVertices[p.Faces[face].Edges[i]]], wind),
                     ev.m, RangeKeys(DOMAIN p.Faces, ord), 1)
        withVertexFaces ==
            FoldKeys(LAMBDA ambo, vertex :
                        IF Cardinality(p.Vertices[vertex].Edges) >= 3
                        THEN LET orderedEdges == orderEdgesAroundVertex(p, vertex, ord)
                             IN  AddFace(ambo,
                                         [i \in 1..Len(orderedEdges) |->
                                             edgeVertices[orderedEdges[i]]], wind)
                        ELSE ambo,
                     withFaces, RangeKeys(DOMAIN p.Vertices, ord), 1)
    IN  Normalize(withVertexFaces)

EdgeVertexKey(edgeID, vertexID) == <<edgeID, vertexID>>

OtherVertex(p, e, v) ==
    IF p.Edges[e].V1 = v THEN p.Edges[e].V2
    ELSE IF p.Edges[e].V2 = v THEN p.Edges[e].V1
    ELSE Nil

createTruncatedEdgeVertices(p, ord) ==
    FoldKeys(LAMBDA acc, edge :
                LET m1 == AddVertex(acc.m)
                    m2 == AddVertex(m1)
                IN  [m |-> m2,
                     map |-> (EdgeVertexKey(edge, p.Edges[edge].V2) :> m2.nextID)
                             @@ (EdgeVertexKey(edge, p.Edges[edge].V1) :> m1.nextID)
                             @@ acc.map],
             [m |-> NewPolyhedron("t" \o p.Name), map |-> <<>>],
             RangeKeys(DOMAIN p.Edges, ord), 1)

\* findAdjacentEdges with the edge to the previous vertex and the edge to
\* the next vertex exchanged
findAdjacentEdgesSwapped(p, vertex, prevVertex, nextVertex, ord) ==
    FoldKeys(LAMBDA acc, e :
                LET other == OtherVertex(p, e, vertex)
                IN  IF other = Nil THEN acc
                    ELSE IF other = nextVertex THEN <<e, acc[2]>>
                    ELSE IF other = prevVertex THEN <<acc[1], e>>
                    ELSE acc,
             <<Nil, Nil>>, RangeKeys(p.Vertices[vertex].Edges, ord), 1)

\* <<edge1, edge2>>
findAdjacentEdges(p, vertex, prevVertex, nextVertex, ord) ==
    FoldKeys(LAMBDA acc, e :
                LET other == OtherVertex(p, e, vertex)
                IN  IF other = Nil THEN acc
                    ELSE IF other = prevVertex THEN <<e, acc[2]>>
                    ELSE IF other = nextVertex THEN <<acc[1], e>>
                    ELSE acc,
             <<Nil, Nil>>, RangeKeys(p.Vertices[vertex].Edges, ord), 1)

addTruncatedFaceVertices(p, face, edgeVertices, ord) ==
    LET fvs == p.Faces[face].Vertices
        n == Len(fvs)
    IN  FoldKeys(LAMBDA newFaceVertices, i :
                    LET vertex == fvs[i + 1]
                        prevVertex == fvs[((i - 1 + n) % n) + 1]
                        nextVertex == fvs[((i + 1) % n) + 1]
                        adj == findAdjacentEdges(p, vertex, prevVertex, nextVertex, ord)
                        key1 == EdgeVertexKey(adj[1], vertex)
                        key2 == EdgeVertexKey(adj[2], vertex)
                        with1 == IF key1 \in DOMAIN edgeVertices
                                 THEN Append(newFaceVertices, edgeVertices[key1])
                                 ELSE newFaceVertices
                    IN  IF adj[1] # Nil /\ adj[2] # Nil
                        THEN IF key2 \in DOMAIN edgeVertices
                             THEN Append(with1, edgeVertices[key2])
                             ELSE with1
                        ELSE newFaceVertices,
                 <<>>, [i \in 1..n |-> i - 1], 1)

processTruncatedFaces(p, trunc, edgeVertices, ord, wind) ==
    FoldKeys(LAMBDA t, face :
                LET newFaceVertices == addTruncatedFaceVertices(p, face, edgeVertices, ord)
                IN  IF Len(newFaceVertices) >= 3
                    THEN AddFace(t, newFaceVertices, wind) ELSE t,
             trunc, RangeKeys(DOMAIN p.Faces, ord), 1)

processTruncatedVertexFaces(p, trunc, edgeVertices, ord, wind) ==
    FoldKeys(LAMBDA t, vertex :
                LET orderedEdges == orderEdgesAroundVertex(p, vertex, ord)
                    vertexFaceVertices ==
                        FoldKeys(LAMBDA vs, edge :
                                    IF EdgeVertexKey(edge, vertex) \in DOMAIN edgeVertices
                                    THEN Append(vs, edgeVertices[EdgeVertexKey(edge, vertex)])
                                    ELSE vs,
                                 <<>>, orderedEdges, 1)
                IN  IF Len(vertexFaceVertices) >= 3
                    THEN AddFace(t, vertexFaceVertices, wind) ELSE t,
             trunc, RangeKeys(DOMAIN p.Vertices, ord), 1)

TruncateApply(p, ord, wind) ==
    LET ev == createTruncatedEdgeVertices(p, ord)
        t1 == processTruncatedFaces(p, ev.m, ev.map, ord, wind)
        t2 == processTruncatedVertexFaces(p, t1, ev.map, ord, wind)
    IN  Normalize(t2)

\* KisOp.Apply that leaves the faces that are triangles as they are
KisApplyKeepTriangles(p, ord, wind) ==
    LET vm == AddVertexPerKey(NewPolyhedron("k" \o p.Name),
                              RangeKeys(DOMAIN p.Vertices, ord))
        vertexMap == vm.map
        withFaces ==
            FoldKeys(LAMBDA kis, face :
                        LET withApex == AddVertex(kis)
                            apex == withApex.nextID
                            fvs == p.Faces[face].Vertices
                            faceVertices == [i \in 1..Len(fvs) |-> vertexMap[fvs[i]]]
                        IN  IF Len(fvs) = 3 THEN AddFace(kis, faceVertices, wind)
                            ELSE FoldKeys(LAMBDA m, i :
                                        AddFace(m, <<faceVertices[i],
                                                     faceVertices[(i % Len(faceVertices)) + 1],
                                                     apex>>, wind),
                                     withApex, [i \in 1..Len(faceVertices) |-> i], 1),
                     vm.m, RangeKeys(DOMAIN p.Faces, ord), 1)
    IN  Normalize(withFaces)

KisApply(p, ord, wind) ==
    LET vm == AddVertexPerKey(NewPolyhedron("k" \o p.Name),
                              RangeKeys(DOMAIN p.Vertices, ord))
        vertexMap == vm.map
        withFaces ==
            FoldKeys(LAMBDA kis, face :
                        LET withApex == AddVertex(kis)
                            apex == withApex.nextID
                            fvs == p.Faces[face].Vertices
                            faceVertices == [i \in 1..Len(fvs) |-> vertexMap[fvs[i]]]
                        IN  FoldKeys(LAMBDA k, i :
                                        AddFace(k, <<faceVertices[i],
                                                     faceVertices[(i % Len(faceVertices)) + 1],
                                                     apex>>, wind),
                                     withApex, [i \in 1..Len(faceVertices) |-> i], 1),
                     vm.m, RangeKeys(DOMAIN p.Faces, ord), 1)
    IN  Normalize(withFaces)

\* The convenience functions create the operation and call its Apply
\* method; Apply, defined below, is that method, dispatched on the symbol.
RECURSIVE Apply(_, _, _, _)
Dual(p, ord, wind) == Apply("d", p, ord, wind)
Ambo(p, ord, wind) == Apply("a", p, ord, wind)
Truncate(p, ord, wind) == Apply("t", p, ord, wind)
Kis(p, ord, wind) == Apply("k", p, ord, wind)

JoinApply(p, ord, wind) == Ambo(Dual(p, ord, wind), ord, wind)

Join(p, ord, wind) == Apply("j", p, ord, wind)

OrthoApply(p, ord, wind) == Join(Join(p, ord, wind), ord, wind)
ExpandApply(p, ord, wind) == Ambo(Ambo(p, ord, wind), ord, wind)
\* GyroOp.Apply with the two operators in the other order
GyroApplyAmboOfDual(p, ord, wind) == Ambo(Dual(p, ord, wind), ord, wind)
GyroApply(p, ord, wind) == Dual(Ambo(p, ord, wind), ord, wind)
Gyro(p, ord, wind) == Apply("g", p, ord, wind)
SnubApply(p, ord, wind) == Dual(Gyro(p, ord, wind), ord, wind)

OperationSymbols == {"d", "a", "t", "k", "j", "o", "e", "g", "s"}

\* Operation.Apply of the operation registered under symbol
Apply(symbol, p, ord, wind) ==
    CASE symbol = "d" -> DualApply(p, ord, wind)
      [] symbol = "a" -> AmboApply(p, ord, wind)
      [] symbol = "t" -> TruncateApply(p, ord, wind)
      [] symbol = "k" -> KisApply(p, ord, wind)
      [] symbol = "j" -> JoinApply(p, ord, wind)
      [] symbol = "o" -> OrthoApply(p, ord, wind)
      [] symbol = "e" -> ExpandApply(p, ord, wind)
      [] symbol = "g" -> GyroApply(p, ord, wind)
      [] symbol = "s" -> SnubApply(p, ord, wind)

\* ---------------------------------------------------------------- parser
SeedSymbols == {"T", "C", "O", "D", "I"}

\* the characters notations are made of: the seed and operator symbols, an
\* ASCII character that is neither, white space, and a two-byte character
Alphabet == SeedSymbols \cup OperationSymbols \cup {"x", " ", "é"}

\* bytes of the UTF-8 encoding of a character
ByteLen(c) == IF c = "é" THEN 2 ELSE 1

RECURSIVE ByteLength(_)
ByteLength(str) ==
    IF str = <<>> THEN 0 ELSE ByteLen(Head(str)) + ByteLength(Tail(str))

\* unicode.IsSpace holding for no character
IsSpaceNever(c) == FALSE

IsSpace(c) == c = " "

RECURSIVE TrimLeft(_)
TrimLeft(str) ==
    IF str # <<>> /\ IsSpace(Head(str)) THEN TrimLeft(Tail(str)) ELSE str

\* strings.TrimSpace
TrimSpace(str) == Reverse(TrimLeft(Reverse(TrimLeft(str))))

ErrEmptyNotation == [kind |-> "ErrEmptyNotation", symbol |-> "", position |-> -1]
ErrNoSeedPolyhedron == [kind |-> "ErrNoSeedPolyhedron", symbol |-> "", position |-> -1]
ErrUnknownSeedPolyhedron(symbol) ==
    [kind |-> "ErrUnknownSeedPolyhedron", symbol |-> symbol, position |-> -1]
ErrUnknownOperation(symbol, i) ==
    [kind |-> "ErrUnknownOperation", symbol |-> symbol, position |-> i]

\* parseNotation from the character at index pos on; wind is the winding
\* pattern of the seed's construction.  parseSymbol is the loop body for
\* the character at pos, where found is what GetSeed returns for it.
RECURSIVE parseNotationLoop(_, _, _, _, _)
RECURSIVE parseSymbol(_, _, _, _, _, _)
parseSymbol(notation, pos, seed, operations, wind, found) ==
    IF seed = NilPolyhedron /\ found # NilPolyhedron
    THEN parseNotationLoop(notation, pos + 1, found, operations, wind)
    ELSE IF notation[pos] \in OperationSymbols
    THEN parseNotationLoop(notation, pos + 1, seed,
                           Append(operations, notation[pos]), wind)
    ELSE IF seed = NilPolyhedron
            /\ ByteLength(SubSeq(notation, 1, pos - 1)) = ByteLength(notation) - 1
    THEN IF found # NilPolyhedron
         THEN parseNotationLoop(notation, pos + 1, found, operations, wind)
         ELSE [seed |-> NilPolyhedron, operations |-> <<>>,
               err |-> ErrUnknownSeedPolyhedron(notation[pos])]
    ELSE [seed |-> NilPolyhedron, operations |-> <<>>,
          err |-> ErrUnknownOperation(notation[pos],
                                      ByteLength(SubSeq(notation, 1, pos - 1)))]

parseNotationLoop(notation, pos, seed, operations, wind) ==
    IF pos > Len(notation)
    THEN [seed |-> seed, operations |-> operations, err |-> NilError]
    ELSE parseSymbol(notation, pos, seed, operations, wind,
                     GetSeed(notation[pos], wind))

parseNotation(notation, wind) ==
    parseNotationLoop(notation, 1, NilPolyhedron, <<>>, wind)

\* ------------------------------------------------------- bounded inputs
\* edges of a seed and the factor by which an operator multiplies them,
\* used only to keep the meshes of a run within MaxEdges
SeedEdges(c) == IF c \in {"D", "I"} THEN 30 ELSE IF c = "T" THEN 6 ELSE 12
EdgeGrowth(c) ==
    IF c = "d" THEN 1 ELSE IF c \in {"t", "k"} THEN 3
    ELSE IF c \in {"o", "e"} THEN 4 ELSE 2

\* edges of the mesh the operators ops make of a mesh of so many edges
RECURSIVE ResultEdges(_, _)
ResultEdges(ops, edges) ==
    IF ops = <<>> THEN edges
    ELSE ResultEdges(Tail(ops), edges * EdgeGrowth(Head(ops)))

OpsOf(str) == SelectSeq(str, LAMBDA c : c \in OperationSymbols)
SeedsOf(str) == SelectSeq(str, LAMBDA c : c \in SeedSymbols)

WithinMaxEdges(str) ==
    IF SeedsOf(str) = <<>> THEN TRUE
    ELSE ResultEdges(OpsOf(str), SeedEdges(SeedsOf(str)[1])) <= MaxEdges

WellFormed(str) ==
    /\ Len(SeedsOf(str)) = 1
    /\ Len(OpsOf(str)) = Len(str) - 1
    /\ Len(OpsOf(str)) <= MaxOps

Longest == IF MaxLen > MaxOps + 1 THEN MaxLen ELSE MaxOps + 1

\* the strings of at most n characters
Strings(n) == UNION {[1..m -> Alphabet] : m \in 0..n}

\* whether str is among the notations that are parsed
WithinBounds(str) ==
    IF Len(str) <= MaxLen THEN WithinMaxEdges(str)
    ELSE WellFormed(str) /\ WithinMaxEdges(str)

\* ---------------------------------------------------------- the program
VARIABLES
    notation,    \* Parse's parameter, a sequence of characters; empty once
                 \* applyOperations runs, which does not read it
    pc,          \* where Parse is: "Parse", "apply", "done"
    seed,        \* the seed parseNotation returned, nil if none
    operations,  \* the operations parseNotation returned, in input order
    k,           \* applyOperations' loop index (1-based)
    result,      \* the mesh Parse returns, nil if none
    err,         \* the error Parse returns, nil if none
    ord,         \* order in which this run's range statements visit maps
    wind,        \* outcome pattern of this run's winding tests
    mesh,        \* a Polyhedron that several threads call methods on
    mu,          \* mesh.mu: the thread holding the write lock (0 if none)
                 \* and the threads holding the read lock
    call,        \* per thread, the method it is inside of, "idle" if none
    copy,        \* the mesh Clone returned, if it has returned since the
                 \* mesh last changed, else nil
    issued,      \* every identifier getNextID has returned for mesh
    calls,       \* how many AddVertex calls and how many other mutating
                 \* calls have returned
    position,    \* per vertex of the shared mesh, the writes made to its
                 \* Position since the mesh was built
    cached,      \* the shared mesh's cachedCentroid
    local,       \* per thread, the local variables of the method it is in
    returned,    \* every value a Centroid call has returned
    observed,    \* the vertex positions each Clone has read under RLock
    faceState    \* per face of the shared mesh, its mu and its cachedNormal,
                 \* cachedCentroid and cachedArea

parserVars == <<notation, pc, seed, operations, k, result, err, ord, wind>>
meshVars == <<mesh, mu, call, copy, issued, calls>>
geometryVars == <<position, cached, local, returned, observed>>
vars == <<notation, pc, seed, operations, k, result, err, ord, wind,
          mesh, mu, call, copy, issued, calls,
          position, cached, local, returned, observed, faceState>>

\* no mesh is shared between threads while Parse runs
NoSharedMesh ==
    /\ mesh = NilPolyhedron
    /\ mu = [writer |-> 0, readers |-> {}]
    /\ call = <<>>
    /\ copy = NilPolyhedron
    /\ issued = {}
    /\ calls = [AddVertex |-> 0, others |-> 0]
    /\ position = <<>>
    /\ cached = NilVector
    /\ local = <<>>
    /\ returned = {}
    /\ observed = {}
    /\ faceState = <<>>

Init ==
    /\ notation \in Strings(Longest)
    /\ WithinBounds(notation)
    /\ pc = "Parse"
    /\ seed = NilPolyhedron
    /\ operations = <<>>
    /\ k = 0
    /\ result = NilPolyhedron
    /\ err = NilError
    /\ ord = ""
    /\ wind = ""
    /\ NoSharedMesh

\* Parse up to the first iteration of applyOperations' loop
Parse ==
    /\ pc = "Parse"
    /\ UNCHANGED meshVars
    /\ UNCHANGED geometryVars
    /\ UNCHANGED faceState
    /\ IF TrimSpace(notation) = <<>>
       THEN /\ err' = ErrEmptyNotation
            /\ notation' = TrimSpace(notation)
            /\ pc' = "done"
            /\ UNCHANGED <<seed, operations, k, result, ord, wind>>
       ELSE \E w \in Windings :
              \E parsed \in {parseNotation(TrimSpace(notation), w)} :
                 IF parsed.err # NilError
                 THEN /\ err' = parsed.err
                      /\ notation' = TrimSpace(notation)
                      /\ pc' = "done"
                      /\ UNCHANGED <<seed, operations, k, result, ord, wind>>
                 ELSE IF parsed.seed = NilPolyhedron
                 THEN /\ err' = ErrNoSeedPolyhedron
                      /\ notation' = TrimSpace(notation)
                      /\ operations' = parsed.operations
                      /\ pc' = "done"
                      /\ UNCHANGED <<seed, k, result, ord, wind>>
                 ELSE \E o \in IterOrders :
                        /\ seed' = parsed.seed
                        /\ operations' = parsed.operations
                        /\ result' = Clone(parsed.seed, o, w)
                        /\ k' = Len(parsed.operations)
                        /\ ord' = o
                        /\ wind' = w
                        /\ notation' = <<>>
                        /\ pc' = "apply"
                        /\ err' = err

\* applyOperations with its loop running from the first operation up
ApplyStepLeftToRight ==
    /\ pc = "apply"
    /\ UNCHANGED meshVars
    /\ UNCHANGED geometryVars
    /\ UNCHANGED faceState
    /\ k >= 1
    /\ result' = Apply(operations[Len(operations) - k + 1], result, ord, wind)
    /\ k' = k - 1
    /\ UNCHANGED <<notation, pc, seed, operations, err, ord, wind>>

\* one iteration of applyOperations' loop
ApplyStep ==
    /\ pc = "apply"
    /\ UNCHANGED meshVars
    /\ UNCHANGED geometryVars
    /\ UNCHANGED faceState
    /\ k >= 1
    /\ result' = Apply(operations[k], result, ord, wind)
    /\ k' = k - 1
    /\ UNCHANGED <<notation, pc, seed, operations, err, ord, wind>>

\* applyOperations returns and Parse returns its result
ParseReturn ==
    /\ pc = "apply"
    /\ UNCHANGED meshVars
    /\ UNCHANGED geometryVars
    /\ UNCHANGED faceState
    /\ k = 0
    /\ pc' = "done"
    /\ UNCHANGED <<notation, seed, operations, k, result, err, ord, wind>>

Next ==
    \/ Parse
    \/ ApplyStep
    \/ ParseReturn

Spec == Init /\ [][Next]_vars


\* ------------------------------------------ threads sharing one mesh
MaxThreads == 2
MaxID == 7
MaxCalls == 4
MaxFaceLen == 3

Threads == 1..MaxThreads

\* the methods that take mesh.mu.Lock()
LockingMethods ==
    {"AddVertex", "AddEdge", "AddFace", "RemoveVertex", "RemoveEdge", "RemoveFace"}

\* the vertex slices a caller passes to AddFace: vertices of the mesh, no
\* vertex twice
FaceArguments(p) ==
    UNION {{vs \in [1..n -> DOMAIN p.Vertices] :
                \A i, j \in 1..n : i # j => vs[i] # vs[j]} : n \in 2..MaxFaceLen}

AllIDs(p) == DOMAIN p.Vertices \cup DOMAIN p.Edges \cup DOMAIN p.Faces

\* the method has arguments in the mesh, and room under MaxID for what it adds
CanCall(method, p) ==
    CASE method = "AddVertex" -> p.nextID < MaxID
      [] method = "AddEdge" ->
            /\ p.nextID < MaxID
            /\ Cardinality(DOMAIN p.Vertices) >= 2
      [] method = "AddFace" ->
            \E vs \in FaceArguments(p), w \in Windings :
                AddFace(p, vs, w).nextID <= MaxID
      [] method = "RemoveVertex" -> DOMAIN p.Vertices # {}
      [] method = "RemoveEdge" -> DOMAIN p.Edges # {}
      [] method = "RemoveFace" -> DOMAIN p.Faces # {}

MeshInit ==
    /\ mesh \in {NewPolyhedron("mesh")} \cup {Tetrahedron(w) : w \in Windings}
    /\ mu = [writer |-> 0, readers |-> {}]
    /\ call = [t \in Threads |-> "idle"]
    /\ copy = NilPolyhedron
    /\ issued = 1..mesh.nextID
    /\ calls = [AddVertex |-> 0, others |-> 0]
    /\ position = <<>>
    /\ cached = NilVector
    /\ local = <<>>
    /\ returned = {}
    /\ observed = {}
    /\ faceState = <<>>
    /\ notation = <<>>
    /\ pc = "mesh"
    /\ seed = NilPolyhedron
    /\ operations = <<>>
    /\ k = 0
    /\ result = NilPolyhedron
    /\ err = NilError
    /\ ord = ""
    /\ wind = ""

\* p.mu.Lock() at the start of a mutating method
Lock(t) ==
    /\ pc = "mesh"
    /\ call[t] = "idle"
    /\ mu.writer = 0
    /\ mu.readers = {}
    /\ calls.AddVertex + calls.others < MaxCalls
    /\ \E method \in LockingMethods :
          /\ CanCall(method, mesh)
          /\ call' = [call EXCEPT ![t] = method]
    /\ mu' = [mu EXCEPT !.writer = t]
    /\ UNCHANGED <<mesh, copy, issued, calls>>
    /\ UNCHANGED parserVars
    /\ UNCHANGED faceState
    /\ UNCHANGED geometryVars

\* the method's body has made the mesh q; the deferred p.mu.Unlock() runs
Unlock(t, q, isAddVertex) ==
    /\ mesh' = q
    /\ mu' = [mu EXCEPT !.writer = 0]
    /\ call' = [call EXCEPT ![t] = "idle"]
    /\ issued' = issued \cup ((mesh.nextID + 1)..q.nextID)
    /\ calls' = IF isAddVertex
                THEN [calls EXCEPT !.AddVertex = @ + 1]
                ELSE [calls EXCEPT !.others = @ + 1]
    /\ copy' = NilPolyhedron
    /\ UNCHANGED parserVars
    /\ UNCHANGED faceState
    /\ UNCHANGED geometryVars

AddVertexCall(t) ==
    /\ pc = "mesh"
    /\ call[t] = "AddVertex"
    /\ Unlock(t, AddVertex(mesh), TRUE)

AddEdgeCall(t, v1, v2) ==
    /\ pc = "mesh"
    /\ call[t] = "AddEdge"
    /\ Unlock(t, addEdgeUnsafe(mesh, v1, v2), FALSE)

AddFaceCall(t, vertices, w) ==
    /\ pc = "mesh"
    /\ call[t] = "AddFace"
    /\ AddFace(mesh, vertices, w).nextID <= MaxID
    /\ Unlock(t, AddFace(mesh, vertices, w), FALSE)

RemoveVertexCall(t, v, o) ==
    /\ pc = "mesh"
    /\ call[t] = "RemoveVertex"
    /\ Unlock(t, removeVertexUnsafe(mesh, v, o), FALSE)

RemoveEdgeCall(t, e) ==
    /\ pc = "mesh"
    /\ call[t] = "RemoveEdge"
    /\ Unlock(t, removeEdgeUnsafe(mesh, e), FALSE)

RemoveFaceCall(t, f) ==
    /\ pc = "mesh"
    /\ call[t] = "RemoveFace"
    /\ Unlock(t, removeFaceUnsafe(mesh, f), FALSE)

\* p.mu.RLock() at the start of Clone
RLock(t) ==
    /\ pc = "mesh"
    /\ call[t] = "idle"
    /\ mu.writer = 0
    /\ mu' = [mu EXCEPT !.readers = @ \cup {t}]
    /\ call' = [call EXCEPT ![t] = "Clone"]
    /\ UNCHANGED <<mesh, copy, issued, calls>>
    /\ UNCHANGED parserVars
    /\ UNCHANGED faceState
    /\ UNCHANGED geometryVars

\* Clone's body and its deferred p.mu.RUnlock()
CloneCall(t, o, w) ==
    /\ pc = "mesh"
    /\ call[t] = "Clone"
    /\ copy' = Clone(mesh, o, w)
    /\ mu' = [mu EXCEPT !.readers = @ \ {t}]
    /\ call' = [call EXCEPT ![t] = "idle"]
    /\ UNCHANGED <<mesh, issued, calls>>
    /\ UNCHANGED parserVars
    /\ UNCHANGED faceState
    /\ UNCHANGED geometryVars

MeshNext ==
    \E t \in Threads :
        \/ Lock(t)
        \/ AddVertexCall(t)
        \/ \E v1, v2 \in DOMAIN mesh.Vertices :
              v1 # v2 /\ AddEdgeCall(t, v1, v2)
        \/ \E vertices \in FaceArguments(mesh), w \in Windings :
              AddFaceCall(t, vertices, w)
        \/ \E v \in DOMAIN mesh.Vertices, o \in IterOrders :
              RemoveVertexCall(t, v, o)
        \/ \E e \in DOMAIN mesh.Edges : RemoveEdgeCall(t, e)
        \/ \E f \in DOMAIN mesh.Faces : RemoveFaceCall(t, f)
        \/ RLock(t)
        \/ \E o \in IterOrders, w \in Windings : CloneCall(t, o, w)

MeshSpec == MeshInit /\ [][MeshNext]_vars

\* ------------------------------ threads reading and moving one mesh
MeshVertices == 3
MaxMethodCalls == 1

\* Vector3{}
ZeroVector == [sum |-> <<>>]

\* calculateCentroidUnsafe without its check of the cache
calculateCentroidUnsafeNoRecheck(cachedCentroid, positions, o) ==
    IF DOMAIN positions = {}
    THEN [value |-> ZeroVector, cachedCentroid |-> cachedCentroid]
    ELSE LET keys == RangeKeys(DOMAIN positions, o)
             centroid == [sum |-> [i \in 1..Len(keys) |->
                                      <<keys[i], positions[keys[i]]>>]]
         IN  [value |-> centroid, cachedCentroid |-> centroid]

\* calculateCentroidUnsafe: the value it returns and the cachedCentroid it
\* leaves.  The sum is a floating-point sum, whose value depends on the
\* order o in which the range statement visits the vertices, so the
\* centroid is the sequence of positions in the order they were added.
calculateCentroidUnsafe(cachedCentroid, positions, o) ==
    IF cachedCentroid # NilVector
    THEN [value |-> cachedCentroid, cachedCentroid |-> cachedCentroid]
    ELSE IF DOMAIN positions = {}
    THEN [value |-> ZeroVector, cachedCentroid |-> cachedCentroid]
    ELSE LET keys == RangeKeys(DOMAIN positions, o)
             centroid == [sum |-> [i \in 1..Len(keys) |->
                                      <<keys[i], positions[keys[i]]>>]]
         IN  [value |-> centroid, cachedCentroid |-> centroid]

\* caller is the method the thread called and method the method it is in
\* now; todo holds what the running loop has yet to visit, seen the keys
\* its range statement has produced or will produce
NoLocals == [caller |-> "", method |-> "", centroid |-> NilVector,
             maxDist |-> NilVector, todo |-> <<>>, seen |-> {}, calls |-> 0]

GeometryInit ==
    /\ position \in {[v \in 1..n |-> <<>>] : n \in {0, MeshVertices}}
    /\ cached = NilVector
    /\ local = [t \in Threads |-> NoLocals]
    /\ returned = {}
    /\ observed = {}
    /\ faceState = <<>>
    /\ mu = [writer |-> 0, readers |-> {}]
    /\ call = [t \in Threads |-> "idle"]
    /\ mesh = NilPolyhedron
    /\ copy = NilPolyhedron
    /\ issued = {}
    /\ calls = [AddVertex |-> 0, others |-> 0]
    /\ notation = <<>>
    /\ pc = "geometry"
    /\ seed = NilPolyhedron
    /\ operations = <<>>
    /\ k = 0
    /\ result = NilPolyhedron
    /\ err = NilError
    /\ ord = ""
    /\ wind = ""

\* a thread calls Centroid, Normalize or Clone; Normalize starts with its
\* call of p.Centroid()
CallMethod(t) ==
    /\ pc = "geometry"
    /\ call[t] = "idle"
    /\ local[t].calls < MaxMethodCalls
    /\ \E method \in {"Centroid", "Normalize", "Clone"} :
          /\ call' = [call EXCEPT ![t] =
                          IF method = "Clone" THEN "Clone" ELSE "Centroid"]
          /\ local' = [local EXCEPT ![t] =
                          [NoLocals EXCEPT !.caller = method,
                                           !.method = method,
                                           !.calls = local[t].calls + 1]]
    /\ UNCHANGED <<position, cached, returned, observed, mu>>
    /\ UNCHANGED <<mesh, copy, issued, calls>>
    /\ UNCHANGED parserVars
    /\ UNCHANGED faceState

\* p.mu.RLock() in Centroid
CentroidRLock(t) ==
    /\ pc = "geometry"
    /\ call[t] = "Centroid"
    /\ mu.writer = 0
    /\ mu' = [mu EXCEPT !.readers = @ \cup {t}]
    /\ call' = [call EXCEPT ![t] = "Centroid.cache"]
    /\ UNCHANGED geometryVars
    /\ UNCHANGED <<mesh, copy, issued, calls>>
    /\ UNCHANGED parserVars
    /\ UNCHANGED faceState

\* Centroid returns value; inside Normalize the first loop starts, which
\* visits the vertices in the order o
CentroidReturns(t, value, o) ==
    /\ returned' = returned \cup {value}
    /\ IF local[t].caller = "Normalize"
       THEN /\ call' = [call EXCEPT ![t] = "Normalize.translate"]
            /\ local' = [local EXCEPT ![t].centroid = value,
                                      ![t].todo = RangeKeys(DOMAIN position, o),
                                      ![t].seen = DOMAIN position]
       ELSE /\ call' = [call EXCEPT ![t] = "idle"]
            /\ local' = local

\* the test of p.cachedCentroid under the read lock, and RUnlock
CentroidCached(t) ==
    /\ pc = "geometry"
    /\ call[t] = "Centroid.cache"
    /\ mu' = [mu EXCEPT !.readers = @ \ {t}]
    /\ IF cached # NilVector
       THEN \E o \in IterOrders : CentroidReturns(t, cached, o)
       ELSE /\ call' = [call EXCEPT ![t] = "Centroid.miss"]
            /\ UNCHANGED <<local, returned>>
    /\ UNCHANGED <<position, cached, observed>>
    /\ UNCHANGED <<mesh, copy, issued, calls>>
    /\ UNCHANGED parserVars
    /\ UNCHANGED faceState

\* p.mu.Lock() in Centroid
CentroidLock(t) ==
    /\ pc = "geometry"
    /\ call[t] = "Centroid.miss"
    /\ mu.writer = 0
    /\ mu.readers = {}
    /\ mu' = [mu EXCEPT !.writer = t]
    /\ call' = [call EXCEPT ![t] = "Centroid.locked"]
    /\ UNCHANGED geometryVars
    /\ UNCHANGED <<mesh, copy, issued, calls>>
    /\ UNCHANGED parserVars
    /\ UNCHANGED faceState

\* calculateCentroidUnsafe under the write lock, and the deferred Unlock
CentroidCompute(t) ==
    /\ pc = "geometry"
    /\ call[t] = "Centroid.locked"
    /\ \E o1, o2 \in IterOrders :
          /\ cached' = calculateCentroidUnsafe(cached, position, o1).cachedCentroid
          /\ CentroidReturns(t, calculateCentroidUnsafe(cached, position, o1).value, o2)
    /\ mu' = [mu EXCEPT !.writer = 0]
    /\ UNCHANGED <<position, observed>>
    /\ UNCHANGED <<mesh, copy, issued, calls>>
    /\ UNCHANGED parserVars
    /\ UNCHANGED faceState

\* one iteration of Normalize's first loop: v.Position = v.Position.Sub(centroid)
NormalizeTranslate(t) ==
    /\ pc = "geometry"
    /\ call[t] = "Normalize.translate"
    /\ local[t].todo # <<>>
    /\ position' = IF Head(local[t].todo) \in DOMAIN position
                    THEN [position EXCEPT ![Head(local[t].todo)] =
                             Append(@, [op |-> "Sub", by |-> local[t].centroid])]
                    ELSE position
    /\ local' = [local EXCEPT ![t].todo = Tail(@)]
    /\ UNCHANGED <<cached, returned, observed, mu, call>>
    /\ UNCHANGED <<mesh, copy, issued, calls>>
    /\ UNCHANGED parserVars
    /\ UNCHANGED faceState

\* Normalize's second loop, which reads every position, as one step; the
\* third loop runs if maxDist > 0, which holds unless there is no vertex
NormalizeMaxDist(t) ==
    /\ pc = "geometry"
    /\ call[t] = "Normalize.translate"
    /\ local[t].todo = <<>>
    /\ \E o \in IterOrders :
          local' = [local EXCEPT ![t].maxDist = [max |-> position],
                                 ![t].todo = RangeKeys(DOMAIN position, o),
                                 ![t].seen = DOMAIN position]
    /\ call' = [call EXCEPT ![t] = "Normalize.scale"]
    /\ UNCHANGED <<position, cached, returned, observed, mu>>
    /\ UNCHANGED <<mesh, copy, issued, calls>>
    /\ UNCHANGED parserVars
    /\ UNCHANGED faceState

\* one iteration of Normalize's third loop: v.Position = v.Position.Scale(scale)
NormalizeScale(t) ==
    /\ pc = "geometry"
    /\ call[t] = "Normalize.scale"
    /\ local[t].todo # <<>>
    /\ position' = IF Head(local[t].todo) \in DOMAIN position
                    THEN [position EXCEPT ![Head(local[t].todo)] =
                             Append(@, [op |-> "Scale", by |-> local[t].maxDist])]
                    ELSE position
    /\ local' = [local EXCEPT ![t].todo = Tail(@)]
    /\ UNCHANGED <<cached, returned, observed, mu, call>>
    /\ UNCHANGED <<mesh, copy, issued, calls>>
    /\ UNCHANGED parserVars
    /\ UNCHANGED faceState

\* p.invalidateCache() at the end of Normalize; the loop over p.Faces
\* starts, which visits the faces in the order o, and Normalize returns if
\* there is no face
NormalizeInvalidate(t) ==
    /\ pc = "geometry"
    /\ call[t] = "Normalize.scale"
    /\ local[t].todo = <<>>
    /\ cached' = NilVector
    /\ IF DOMAIN faceState = {}
       THEN /\ call' = [call EXCEPT ![t] = "idle"]
            /\ local' = local
       ELSE /\ call' = [call EXCEPT ![t] = "Normalize.faces"]
            /\ \E o \in IterOrders :
                  local' = [local EXCEPT ![t].todo = RangeKeys(DOMAIN faceState, o),
                                         ![t].seen = DOMAIN faceState]
    /\ UNCHANGED <<position, returned, observed, mu>>
    /\ UNCHANGED <<mesh, copy, issued, calls>>
    /\ UNCHANGED parserVars
    /\ UNCHANGED faceState

\* p.mu.RLock() in Clone
CloneRLock(t) ==
    /\ pc = "geometry"
    /\ call[t] = "Clone"
    /\ mu.writer = 0
    /\ mu' = [mu EXCEPT !.readers = @ \cup {t}]
    /\ call' = [call EXCEPT ![t] = "Clone.vertices"]
    /\ UNCHANGED geometryVars
    /\ UNCHANGED <<mesh, copy, issued, calls>>
    /\ UNCHANGED parserVars
    /\ UNCHANGED faceState

\* Clone's loop over p.Vertices, which reads every v.Position, as one
\* step, and the deferred RUnlock
CloneReadsPositions(t) ==
    /\ pc = "geometry"
    /\ call[t] = "Clone.vertices"
    /\ observed' = observed \cup {position}
    /\ mu' = [mu EXCEPT !.readers = @ \ {t}]
    /\ call' = [call EXCEPT ![t] = "idle"]
    /\ UNCHANGED <<position, cached, local, returned>>
    /\ UNCHANGED <<mesh, copy, issued, calls>>
    /\ UNCHANGED parserVars
    /\ UNCHANGED faceState

GeometryNext ==
    \E t \in Threads :
        \/ CallMethod(t)
        \/ CentroidRLock(t)
        \/ CentroidCached(t)
        \/ CentroidLock(t)
        \/ CentroidCompute(t)
        \/ NormalizeTranslate(t)
        \/ NormalizeMaxDist(t)
        \/ NormalizeScale(t)
        \/ NormalizeInvalidate(t)
        \/ CloneRLock(t)
        \/ CloneReadsPositions(t)

GeometrySpec == GeometryInit /\ [][GeometryNext]_vars

\* --------------------------- threads calling every method of one mesh
\* what NewFace leaves in a Face's mu and cached properties
NewFace == [mu |-> [writer |-> 0, readers |-> {}], cachedNormal |-> NilVector,
            cachedCentroid |-> NilVector, cachedArea |-> NilVector]

\* invalidateFaceCache that leaves cachedArea
invalidateFaceCacheKeepsArea(f) ==
    [f EXCEPT !.cachedNormal = NilVector, !.cachedCentroid = NilVector]

\* what invalidateFaceCache leaves in the face's cached properties
invalidateFaceCache(f) ==
    [f EXCEPT !.cachedNormal = NilVector, !.cachedCentroid = NilVector,
              !.cachedArea = NilVector]

\* fewest vertices with which Face.Normal, Face.Centroid and Face.Area
\* compute and cache a value
MinVertices(property) == IF property = "cachedCentroid" THEN 1 ELSE 3

\* the value Face.Normal, Face.Centroid or Face.Area computes from the
\* positions of the face's vertices
FaceProperty(p, f, positions) ==
    [of |-> [i \in 1..Len(p.Faces[f].Vertices) |->
                <<p.Faces[f].Vertices[i],
                  IF p.Faces[f].Vertices[i] \in DOMAIN positions
                  THEN positions[p.Faces[f].Vertices[i]] ELSE <<>>>>]]

\* the cached properties Face.Normal, Face.Centroid and Face.Area leave
\* after the double check under f.mu.Lock()
FaceComputes(p, f, state, property, positions) ==
    IF state[property] # NilVector THEN state
    ELSE IF Len(p.Faces[f].Vertices) < MinVertices(property) THEN state
    ELSE [state EXCEPT ![property] = FaceProperty(p, f, positions)]

\* a mesh built as TestConcurrentOperations builds its mesh: MeshVertices
\* vertices and one face over them
SharedMesh(w) ==
    BuildSeed("concurrent", MeshVertices,
              <<[i \in 1..MeshVertices |-> i - 1]>>, w)

Validators ==
    <<"ValidateTopology", "ValidateManifold", "ValidatePlanarity",
      "ValidateWinding", "ValidateGeometry">>

\* the methods that take mesh.mu.RLock() and hold it until they return
ReadingMethods == Range(Validators) \cup {"CalculateGeometryStats"}

\* the calls of Face.Normal and Face.Centroid ValidateWinding makes, up to
\* the first face validateFaceWinding rejects for its vertex count
RECURSIVE WindingReads(_, _)
WindingReads(p, keys) ==
    IF keys = <<>> THEN <<>>
    ELSE IF Len(p.Faces[Head(keys)].Vertices) < 3 THEN <<>>
    ELSE <<<<Head(keys), "cachedNormal">>, <<Head(keys), "cachedCentroid">>>>
            \o WindingReads(p, Tail(keys))

\* the calls of Face.Area ValidateGeometry and calculateFaceStats make
AreaReads(keys) == [i \in 1..Len(keys) |-> <<keys[i], "cachedArea">>]

\* the calls of Face.Normal, Face.Centroid and Face.Area a method makes
\* under the mesh's read lock, its loop visiting the faces in the order o
FaceReads(method, p, o) ==
    CASE method = "ValidateWinding" ->
            WindingReads(p, RangeKeys(DOMAIN p.Faces, o))
      [] method = "ValidateGeometry" ->
            AreaReads(RangeKeys(DOMAIN p.Faces, o))
      [] method = "CalculateGeometryStats" ->
            IF DOMAIN p.Edges = {} \/ DOMAIN p.Faces = {}
            THEN <<>>
            ELSE AreaReads(RangeKeys(DOMAIN p.Faces, o))
      [] OTHER -> <<>>

\* the mesh after construction and after reads by one thread, which
\* leave the mesh's cache, the faces' caches or both filled
ConcurrentInit ==
    /\ \E w \in Windings : mesh = SharedMesh(w)
    /\ position = [v \in DOMAIN mesh.Vertices |-> <<>>]
    /\ \E o \in IterOrders :
          cached \in {NilVector,
                      calculateCentroidUnsafe(NilVector, position, o).value}
    /\ faceState \in {[f \in DOMAIN mesh.Faces |-> NewFace],
                      [f \in DOMAIN mesh.Faces |->
                          [mu |-> NewFace.mu,
                           cachedNormal |-> FaceProperty(mesh, f, position),
                           cachedCentroid |-> FaceProperty(mesh, f, position),
                           cachedArea |-> FaceProperty(mesh, f, position)]]}
    /\ local = [t \in Threads |-> NoLocals]
    /\ returned = {}
    /\ observed = {}
    /\ mu = [writer |-> 0, readers |-> {}]
    /\ call = [t \in Threads |-> "idle"]
    /\ copy = NilPolyhedron
    /\ issued = {}
    /\ calls = [AddVertex |-> 0, others |-> 0]
    /\ notation = <<>>
    /\ pc = "geometry"
    /\ seed = NilPolyhedron
    /\ operations = <<>>
    /\ k = 0
    /\ result = NilPolyhedron
    /\ err = NilError
    /\ ord = ""
    /\ wind = ""

\* the mesh holds entities to call the method with
HasArguments(method, p) ==
    CASE method = "AddEdge" -> DOMAIN p.Vertices # {}
      [] method = "AddFace" -> FaceArguments(p) # {}
      [] method = "RemoveVertex" -> DOMAIN p.Vertices # {}
      [] method = "RemoveEdge" -> DOMAIN p.Edges # {}
      [] method = "RemoveFace" -> DOMAIN p.Faces # {}
      [] OTHER -> TRUE

\* a thread calls a method that holds mesh.mu from its first statement to
\* its return; ValidateComplete starts with its call of ValidateTopology
CallLocking(t) ==
    /\ pc = "geometry"
    /\ call[t] = "idle"
    /\ local[t].calls < MaxMethodCalls
    /\ \E method \in LockingMethods \cup ReadingMethods \cup {"ValidateComplete"} :
          /\ HasArguments(method, mesh)
          /\ call' = [call EXCEPT ![t] =
                          IF method \in LockingMethods THEN "Lock" ELSE "RLock"]
          /\ local' = [local EXCEPT ![t] =
                          [NoLocals EXCEPT !.caller = method,
                                           !.method = IF method = "ValidateComplete"
                                                      THEN Validators[1] ELSE method,
                                           !.calls = local[t].calls + 1]]
    /\ UNCHANGED <<position, cached, returned, observed, mu>>
    /\ UNCHANGED <<mesh, copy, issued, calls>>
    /\ UNCHANGED parserVars
    /\ UNCHANGED faceState

\* p.mu.Lock() at the start of a mutating method
MutatorLock(t) ==
    /\ pc = "geometry"
    /\ call[t] = "Lock"
    /\ mu.writer = 0
    /\ mu.readers = {}
    /\ mu' = [mu EXCEPT !.writer = t]
    /\ call' = [call EXCEPT ![t] = "locked"]
    /\ UNCHANGED geometryVars
    /\ UNCHANGED <<mesh, copy, issued, calls>>
    /\ UNCHANGED parserVars
    /\ UNCHANGED faceState

\* the body of a mutating method has made the mesh q, whose vertices have
\* the positions given, whose cachedCentroid is cache and whose faces are
\* in the states given; the deferred p.mu.Unlock() runs
MutatorReturns(t, method, q, positions, cache, faces) ==
    /\ pc = "geometry"
    /\ call[t] = "locked"
    /\ local[t].method = method
    /\ mesh' = [q EXCEPT !.cachedCentroid = FALSE]
    /\ position' = positions
    /\ cached' = cache
    /\ faceState' = faces
    /\ mu' = [mu EXCEPT !.writer = 0]
    /\ call' = [call EXCEPT ![t] = "idle"]
    /\ UNCHANGED <<local, returned, observed>>
    /\ UNCHANGED <<copy, issued, calls>>
    /\ UNCHANGED parserVars

\* AddVertex: the new vertex has the position it was given
AddVertexLocked(t) ==
    /\ call[t] = "locked"
    /\ local[t].method = "AddVertex"
    /\ MutatorReturns(t, "AddVertex", AddVertex(mesh),
                      position @@ ((mesh.nextID + 1) :> <<>>), NilVector, faceState)

AddEdgeLocked(t, v1, v2) ==
    /\ call[t] = "locked"
    /\ local[t].method = "AddEdge"
    /\ \E q \in {addEdgeUnsafe(mesh, v1, v2)} :
          MutatorReturns(t, "AddEdge", q, position, cached, faceState)

\* AddFace, whose call of calculateCentroidUnsafe visits the vertices in
\* the order o
AddFaceLocked(t, vertices, w, o) ==
    /\ call[t] = "locked"
    /\ local[t].method = "AddFace"
    /\ \E q \in {AddFace(mesh, vertices, w)} :
          MutatorReturns(t, "AddFace", q, position,
                         IF Cardinality(DOMAIN mesh.Vertices) > 3
                         THEN calculateCentroidUnsafe(cached, position, o).cachedCentroid
                         ELSE cached,
                         faceState @@ ((mesh.nextID + 1) :> NewFace))

RemoveVertexLocked(t, v, o) ==
    /\ call[t] = "locked"
    /\ local[t].method = "RemoveVertex"
    /\ \E q \in {removeVertexUnsafe(mesh, v, o)} :
          MutatorReturns(t, "RemoveVertex", q,
                         Restrict(position, DOMAIN q.Vertices), NilVector,
                         Restrict(faceState, DOMAIN q.Faces))

RemoveEdgeLocked(t, e) ==
    /\ call[t] = "locked"
    /\ local[t].method = "RemoveEdge"
    /\ \E q \in {removeEdgeUnsafe(mesh, e)} :
          MutatorReturns(t, "RemoveEdge", q, position, cached, faceState)

RemoveFaceLocked(t, f) ==
    /\ call[t] = "locked"
    /\ local[t].method = "RemoveFace"
    /\ \E q \in {removeFaceUnsafe(mesh, f)} :
          MutatorReturns(t, "RemoveFace", q, position, cached,
                         Restrict(faceState, DOMAIN q.Faces))

\* the method was called with entities that other calls have removed from
\* the mesh before it took the lock, and the mesh holds none to take their
\* place: the maps hold nothing the method would delete, removeVertexUnsafe
\* still calls invalidateCache, and the deferred p.mu.Unlock() runs
StaleArgumentsLocked(t) ==
    /\ call[t] = "locked"
    /\ ~HasArguments(local[t].method, mesh)
    /\ MutatorReturns(t, local[t].method, mesh, position,
                      IF local[t].method = "RemoveVertex" THEN NilVector ELSE cached,
                      faceState)

\* p.mu.RLock() at the start of a validator or of CalculateGeometryStats
ReaderRLock(t) ==
    /\ pc = "geometry"
    /\ call[t] = "RLock"
    /\ mu.writer = 0
    /\ mu' = [mu EXCEPT !.readers = @ \cup {t}]
    /\ call' = [call EXCEPT ![t] = "RLocked"]
    /\ UNCHANGED geometryVars
    /\ UNCHANGED <<mesh, copy, issued, calls>>
    /\ UNCHANGED parserVars
    /\ UNCHANGED faceState

\* under the read lock: ValidateWinding's call of calculateCentroidUnsafe,
\* which visits the vertices in the order o1 and stores what it computes,
\* and the start of the method's loop over p.Faces, which visits the faces
\* in the order o2
ReaderStarts(t, o1, o2) ==
    /\ pc = "geometry"
    /\ call[t] = "RLocked"
    /\ cached' = IF local[t].method = "ValidateWinding"
                 THEN calculateCentroidUnsafe(cached, position, o1).cachedCentroid
                 ELSE cached
    /\ \E reads \in {FaceReads(local[t].method, mesh, o2)} :
          local' = [local EXCEPT ![t].todo = reads,
                                 ![t].seen = {reads[i][1] : i \in 1..Len(reads)}]
    /\ call' = [call EXCEPT ![t] = "faces"]
    /\ UNCHANGED <<position, returned, observed, mu>>
    /\ UNCHANGED <<mesh, copy, issued, calls>>
    /\ UNCHANGED parserVars
    /\ UNCHANGED faceState

\* f.mu.RLock() in Face.Normal, Face.Centroid and Face.Area
FaceRLock(t) ==
    /\ pc = "geometry"
    /\ call[t] = "faces"
    /\ local[t].todo # <<>>
    /\ faceState[Head(local[t].todo)[1]].mu.writer = 0
    /\ faceState' = [faceState EXCEPT ![Head(local[t].todo)[1]].mu.readers =
                                           @ \cup {t}]
    /\ call' = [call EXCEPT ![t] = "face.cache"]
    /\ UNCHANGED geometryVars
    /\ UNCHANGED <<mesh, mu, copy, issued, calls>>
    /\ UNCHANGED parserVars

\* the test of the cached property under the face's read lock, and RUnlock
FaceCached(t) ==
    /\ pc = "geometry"
    /\ call[t] = "face.cache"
    /\ faceState' = [faceState EXCEPT ![Head(local[t].todo)[1]].mu.readers =
                                           @ \ {t}]
    /\ IF faceState[Head(local[t].todo)[1]][Head(local[t].todo)[2]] # NilVector
       THEN /\ call' = [call EXCEPT ![t] = "faces"]
            /\ local' = [local EXCEPT ![t].todo = Tail(@)]
       ELSE /\ call' = [call EXCEPT ![t] = "face.miss"]
            /\ local' = local
    /\ UNCHANGED <<position, cached, returned, observed>>
    /\ UNCHANGED <<mesh, mu, copy, issued, calls>>
    /\ UNCHANGED parserVars

\* f.mu.Lock() in Face.Normal, Face.Centroid and Face.Area
FaceLock(t) ==
    /\ pc = "geometry"
    /\ call[t] = "face.miss"
    /\ faceState[Head(local[t].todo)[1]].mu.writer = 0
    /\ faceState[Head(local[t].todo)[1]].mu.readers = {}
    /\ faceState' = [faceState EXCEPT ![Head(local[t].todo)[1]].mu.writer = t]
    /\ call' = [call EXCEPT ![t] = "face.locked"]
    /\ UNCHANGED geometryVars
    /\ UNCHANGED <<mesh, mu, copy, issued, calls>>
    /\ UNCHANGED parserVars

\* the second test of the cached property, the computation from the
\* positions of the face's vertices, and the deferred Unlock
FaceCompute(t) ==
    /\ pc = "geometry"
    /\ call[t] = "face.locked"
    /\ faceState' =
          [faceState EXCEPT ![Head(local[t].todo)[1]] =
              [FaceComputes(mesh, Head(local[t].todo)[1], @,
                            Head(local[t].todo)[2], position)
                  EXCEPT !.mu.writer = 0]]
    /\ call' = [call EXCEPT ![t] = "faces"]
    /\ local' = [local EXCEPT ![t].todo = Tail(@)]
    /\ UNCHANGED <<position, cached, returned, observed>>
    /\ UNCHANGED <<mesh, mu, copy, issued, calls>>
    /\ UNCHANGED parserVars

\* the thread's loop has yet to read a cached property of face f
Pending(t, f) ==
    \E i \in 1..Len(local[t].todo) : local[t].todo[i][1] = f

\* whether the validator the thread is in can return an error now: the
\* tests of ValidateTopology and ValidateManifold read the connectivity;
\* ValidatePlanarity skips faces of up to 3 vertices; validateFaceWinding
\* rejects a face of fewer than 3 vertices, and a face whose normal and
\* centroid it has read if the dot product is too small; ValidateGeometry
\* rejects a short edge before its loop over p.Faces, and a face whose
\* area it has read if the area is too small
ValidatorFails(t) ==
    CASE local[t].method = "ValidateTopology" ->
            {ValidateTopology(mesh) # NilError}
      [] local[t].method = "ValidateManifold" ->
            {ValidateManifold(mesh, o) # NilError : o \in IterOrders}
      [] local[t].method = "ValidatePlanarity" ->
            IF \E f \in DOMAIN mesh.Faces : Len(mesh.Faces[f].Vertices) > 3
            THEN BOOLEAN ELSE {FALSE}
      [] local[t].method = "ValidateWinding" ->
            IF local[t].todo = <<>>
            THEN IF \E f \in DOMAIN mesh.Faces : Len(mesh.Faces[f].Vertices) < 3
                 THEN {TRUE}
                 ELSE IF DOMAIN mesh.Faces = {} THEN {FALSE} ELSE BOOLEAN
            ELSE IF /\ Len(local[t].todo) % 2 = 0
                    /\ \E f \in local[t].seen : ~Pending(t, f)
                 THEN {TRUE} ELSE {}
      [] local[t].method = "ValidateGeometry" ->
            IF local[t].todo = <<>>
            THEN IF DOMAIN mesh.Edges = {} /\ DOMAIN mesh.Faces = {}
                 THEN {FALSE} ELSE BOOLEAN
            ELSE IF \/ DOMAIN mesh.Edges # {} /\ \A f \in local[t].seen : Pending(t, f)
                    \/ \E f \in local[t].seen : ~Pending(t, f)
                 THEN {TRUE} ELSE {}
      [] OTHER -> IF local[t].todo = <<>> THEN {FALSE} ELSE {}

\* the validator after this one in ValidateComplete, "" after the last
NextValidator(method) ==
    IF \E i \in 1..(Len(Validators) - 1) : Validators[i] = method
    THEN Validators[1 + CHOOSE i \in 1..(Len(Validators) - 1) :
                            Validators[i] = method]
    ELSE ""

\* the method returns and its deferred p.mu.RUnlock() runs; ValidateComplete
\* calls the next validator unless this one failed
ReaderReturns(t) ==
    /\ pc = "geometry"
    /\ call[t] = "faces"
    /\ \E failed \in ValidatorFails(t) :
          IF /\ local[t].caller = "ValidateComplete"
             /\ ~failed
             /\ NextValidator(local[t].method) # ""
          THEN /\ call' = [call EXCEPT ![t] = "RLock"]
               /\ local' = [local EXCEPT ![t].method = NextValidator(@),
                                         ![t].todo = <<>>, ![t].seen = {}]
          ELSE /\ call' = [call EXCEPT ![t] = "idle"]
               /\ local' = [local EXCEPT ![t].todo = <<>>, ![t].seen = {}]
    /\ mu' = [mu EXCEPT !.readers = @ \ {t}]
    /\ UNCHANGED <<position, cached, returned, observed>>
    /\ UNCHANGED <<mesh, copy, issued, calls>>
    /\ UNCHANGED parserVars
    /\ UNCHANGED faceState

\* f.mu.Lock() in invalidateFaceCache, called by Normalize for the next
\* face of its loop; a face removed from the mesh since the loop started
\* is still locked and invalidated, and is no face of the mesh
NormalizeFaceLock(t) ==
    /\ pc = "geometry"
    /\ call[t] = "Normalize.faces"
    /\ local[t].todo # <<>>
    /\ IF Head(local[t].todo) \in DOMAIN faceState
       THEN /\ faceState[Head(local[t].todo)].mu.writer = 0
            /\ faceState[Head(local[t].todo)].mu.readers = {}
            /\ faceState' = [faceState EXCEPT ![Head(local[t].todo)].mu.writer = t]
       ELSE faceState' = faceState
    /\ call' = [call EXCEPT ![t] = "Normalize.face.locked"]
    /\ UNCHANGED geometryVars
    /\ UNCHANGED <<mesh, mu, copy, issued, calls>>
    /\ UNCHANGED parserVars

\* the body of invalidateFaceCache and its deferred Unlock; Normalize
\* returns after the last face
NormalizeFaceInvalidate(t) ==
    /\ pc = "geometry"
    /\ call[t] = "Normalize.face.locked"
    /\ faceState' = IF Head(local[t].todo) \in DOMAIN faceState
                    THEN [faceState EXCEPT ![Head(local[t].todo)] =
                             [invalidateFaceCache(@) EXCEPT !.mu.writer = 0]]
                    ELSE faceState
    /\ local' = [local EXCEPT ![t].todo = Tail(@)]
    /\ call' = [call EXCEPT ![t] =
                    IF Tail(local[t].todo) = <<>> THEN "idle" ELSE "Normalize.faces"]
    /\ UNCHANGED <<position, cached, returned, observed>>
    /\ UNCHANGED <<mesh, mu, copy, issued, calls>>
    /\ UNCHANGED parserVars

\* the keys of the map the thread's range statement iterates over without
\* the mesh's lock: p.Vertices in Normalize's three loops over the
\* vertices, p.Faces in its loop over the faces
RangedMap(t) ==
    IF call[t] \in {"Normalize.translate", "Normalize.scale"}
    THEN DOMAIN position
    ELSE IF call[t] \in {"Normalize.faces", "Normalize.face.locked"}
    THEN DOMAIN faceState
    ELSE {}

\* an entry added to the map during the iteration may be produced by it or
\* skipped: the range statement produces key, at the place i of what it has
\* yet to visit
RangeProducesNewEntry(t, key, i) ==
    /\ pc = "geometry"
    /\ key \in RangedMap(t) \ local[t].seen
    /\ i \in 1..(Len(local[t].todo) + 1)
    /\ call[t] # "Normalize.face.locked" \/ i > 1
    /\ local' = [local EXCEPT
                    ![t].todo = SubSeq(@, 1, i - 1) \o <<key>> \o SubSeq(@, i, Len(@)),
                    ![t].seen = @ \cup {key}]
    /\ UNCHANGED <<position, cached, returned, observed, mu, call>>
    /\ UNCHANGED <<mesh, copy, issued, calls>>
    /\ UNCHANGED parserVars
    /\ UNCHANGED faceState

\* the methods whose body writes to p.Vertices and to p.Faces
VertexMapWriters == {"AddVertex", "RemoveVertex"}
FaceMapWriters == {"AddFace", "RemoveFace", "RemoveVertex"}

\* Normalize iterates over p.Vertices or p.Faces without the mesh's lock
\* while a thread that holds the lock writes to that map: the runtime may
\* detect it, and then ends the program with the fatal error
\* "concurrent map iteration and map write"; no call returns after it
ConcurrentMapFatal(t) ==
    /\ pc = "geometry"
    /\ mu.writer # 0
    /\ call[mu.writer] = "locked"
    /\ \/ /\ call[t] \in {"Normalize.translate", "Normalize.scale"}
          /\ local[mu.writer].method \in VertexMapWriters
       \/ /\ call[t] \in {"Normalize.faces", "Normalize.face.locked"}
          /\ local[mu.writer].method \in FaceMapWriters
    /\ pc' = "fatal"
    /\ UNCHANGED <<notation, seed, operations, k, result, err, ord, wind>>
    /\ UNCHANGED meshVars
    /\ UNCHANGED geometryVars
    /\ UNCHANGED faceState

\* the steps of thread t inside a call
ThreadNext(t) ==
    \/ CentroidRLock(t)
    \/ CentroidCached(t)
    \/ CentroidLock(t)
    \/ CentroidCompute(t)
    \/ NormalizeTranslate(t)
    \/ NormalizeMaxDist(t)
    \/ NormalizeScale(t)
    \/ NormalizeInvalidate(t)
    \/ NormalizeFaceLock(t)
    \/ NormalizeFaceInvalidate(t)
    \/ CloneRLock(t)
    \/ CloneReadsPositions(t)
    \/ MutatorLock(t)
    \/ AddVertexLocked(t)
    \/ \E v1, v2 \in DOMAIN mesh.Vertices : AddEdgeLocked(t, v1, v2)
    \/ \E vertices \in FaceArguments(mesh), w \in Windings, o \in IterOrders :
          AddFaceLocked(t, vertices, w, o)
    \/ \E v \in DOMAIN mesh.Vertices, o \in IterOrders : RemoveVertexLocked(t, v, o)
    \/ \E e \in DOMAIN mesh.Edges : RemoveEdgeLocked(t, e)
    \/ \E f \in DOMAIN mesh.Faces : RemoveFaceLocked(t, f)
    \/ StaleArgumentsLocked(t)
    \/ ReaderRLock(t)
    \/ \E o1, o2 \in IterOrders : ReaderStarts(t, o1, o2)
    \/ FaceRLock(t)
    \/ FaceCached(t)
    \/ FaceLock(t)
    \/ FaceCompute(t)
    \/ ReaderReturns(t)

ConcurrentNext ==
    \E t \in Threads :
        \/ CallMethod(t)
        \/ CallLocking(t)
        \/ ThreadNext(t)
        \/ \E key \in DOMAIN position \cup DOMAIN faceState,
              i \in 1..(MeshVertices + 2) : RangeProducesNewEntry(t, key, i)
        \/ ConcurrentMapFatal(t)

ConcurrentSpec == ConcurrentInit /\ [][ConcurrentNext]_vars

\* the step that ends the body of a mutating method: no statement of the
\* body blocks, so the thread reaches the deferred p.mu.Unlock()
MutatorUnlocks(t) ==
    /\ pc = "geometry"
    /\ call[t] = "locked"
    /\ call' = [call EXCEPT ![t] = "idle"]

\* the steps of thread t other than the bodies of the mutating methods
Running(t) ==
    \/ CentroidRLock(t)
    \/ CentroidCached(t)
    \/ CentroidLock(t)
    \/ CentroidCompute(t)
    \/ NormalizeTranslate(t)
    \/ NormalizeMaxDist(t)
    \/ NormalizeScale(t)
    \/ NormalizeInvalidate(t)
    \/ NormalizeFaceLock(t)
    \/ NormalizeFaceInvalidate(t)
    \/ CloneRLock(t)
    \/ CloneReadsPositions(t)
    \/ MutatorLock(t)
    \/ ReaderRLock(t)
    \/ \E o1, o2 \in IterOrders : ReaderStarts(t, o1, o2)
    \/ FaceRLock(t)
    \/ FaceCached(t)
    \/ FaceLock(t)
    \/ FaceCompute(t)
    \/ ReaderReturns(t)

\* the scheduler runs every thread that can take a step: a thread inside
\* a call takes its next step, and a thread waiting for a lock takes it
\* once the lock stays free
FairConcurrentSpec ==
    /\ ConcurrentSpec
    /\ \A t \in Threads : WF_vars(Running(t)) /\ WF_call(MutatorUnlocks(t))

\* ------------------------------------- one caller building one mesh
MaxRemovals == 2
MaxBuildID == 5

\* the vertex slices a caller can pass to AddFace: any vertices of the
\* mesh, none, one, or one of them several times
FaceSlices(p) ==
    UNION {[1..n -> DOMAIN p.Vertices] : n \in 0..MaxFaceLen}

TopologyInit ==
    /\ mesh \in {NewPolyhedron("mesh")}
                    \cup {Tetrahedron(w) : w \in Windings}
                    \cup {ExtraFaceTetrahedron(w) : w \in Windings}
                    \cup {TwoTetrahedra(w) : w \in Windings}
    /\ pc = "topology"
    /\ issued = 1..mesh.nextID
    /\ calls = [AddVertex |-> 0, others |-> 0]
    /\ returned = {}
    /\ mu = [writer |-> 0, readers |-> {}]
    /\ call = <<>>
    /\ copy = NilPolyhedron
    /\ position = <<>>
    /\ cached = NilVector
    /\ local = <<>>
    /\ observed = {}
    /\ faceState = <<>>
    /\ notation = <<>>
    /\ seed = NilPolyhedron
    /\ operations = <<>>
    /\ k = 0
    /\ result = NilPolyhedron
    /\ err = NilError
    /\ ord = ""
    /\ wind = ""

\* a mutating method has made the mesh q and returned; removals counts
\* how many of RemoveVertex, RemoveEdge and RemoveFace it was
Mutated(q, removals) ==
    /\ pc = "topology"
    /\ mesh' = q
    /\ issued' = issued \cup ((mesh.nextID + 1)..q.nextID)
    /\ calls' = [calls EXCEPT !.others = @ + removals]
    /\ returned' = {}
    /\ UNCHANGED <<mu, call, copy>>
    /\ UNCHANGED <<position, cached, local, observed>>
    /\ UNCHANGED parserVars
    /\ UNCHANGED faceState

\* a method that reads the mesh has returned value
Answered(method, value) ==
    /\ pc = "topology"
    /\ returned' = {[method |-> method, value |-> value]}
    /\ UNCHANGED meshVars
    /\ UNCHANGED <<position, cached, local, observed>>
    /\ UNCHANGED parserVars
    /\ UNCHANGED faceState

DoAddVertex ==
    /\ mesh.nextID < MaxBuildID
    /\ Mutated(AddVertex(mesh), 0)

DoAddEdge(v1, v2) ==
    /\ addEdgeUnsafe(mesh, v1, v2).nextID <= MaxBuildID
    /\ Mutated(addEdgeUnsafe(mesh, v1, v2), 0)

DoAddFace(vertices, w) ==
    /\ AddFace(mesh, vertices, w).nextID <= MaxBuildID
    /\ Mutated(AddFace(mesh, vertices, w), 0)

DoRemoveVertex(v, o) ==
    /\ calls.others < MaxRemovals
    /\ Mutated(removeVertexUnsafe(mesh, v, o), 1)

DoRemoveEdge(e) ==
    /\ calls.others < MaxRemovals
    /\ Mutated(removeEdgeUnsafe(mesh, e), 1)

DoRemoveFace(f) ==
    /\ calls.others < MaxRemovals
    /\ Mutated(removeFaceUnsafe(mesh, f), 1)

DoIsValid == Answered("IsValid", IsValid(mesh))

DoValidateTopology == Answered("ValidateTopology", ValidateTopology(mesh))

DoValidateManifold(o) == Answered("ValidateManifold", ValidateManifold(mesh, o))

TopologyNext ==
    \/ DoAddVertex
    \/ \E v1, v2 \in DOMAIN mesh.Vertices : DoAddEdge(v1, v2)
    \/ \E vertices \in FaceSlices(mesh), w \in Windings : DoAddFace(vertices, w)
    \/ \E v \in DOMAIN mesh.Vertices, o \in IterOrders : DoRemoveVertex(v, o)
    \/ \E e \in DOMAIN mesh.Edges : DoRemoveEdge(e)
    \/ \E f \in DOMAIN mesh.Faces : DoRemoveFace(f)
    \/ DoIsValid
    \/ DoValidateTopology
    \/ \E o \in IterOrders : DoValidateManifold(o)

TopologySpec == TopologyInit /\ [][TopologyNext]_vars

\* --------------------------- the traversals around a vertex, step by step
\* no traversal is running
NoTraversal == [kind |-> "", v |-> 0, ordered |-> <<>>, fallback |-> FALSE]

TraversalInit ==
    /\ mesh \in {GetSeed(symbol, w) : symbol \in SeedSymbols, w \in Windings}
    /\ pc = "traversal"
    /\ local = NoTraversal
    /\ returned = {}
    /\ issued = {}
    /\ calls = [AddVertex |-> 0, others |-> 0]
    /\ mu = [writer |-> 0, readers |-> {}]
    /\ call = <<>>
    /\ copy = NilPolyhedron
    /\ position = <<>>
    /\ cached = NilVector
    /\ observed = {}
    /\ faceState = <<>>
    /\ notation = <<>>
    /\ seed = NilPolyhedron
    /\ operations = <<>>
    /\ k = 0
    /\ result = NilPolyhedron
    /\ err = NilError
    /\ ord = ""
    /\ wind = ""

\* a step of a traversal changes its locals and what it has returned
TraversalFrame ==
    /\ pc = "traversal"
    /\ UNCHANGED meshVars
    /\ UNCHANGED <<position, cached, observed>>
    /\ UNCHANGED parserVars
    /\ UNCHANGED faceState

\* the call has returned value
TraversalReturns(value) ==
    /\ returned' = {[method |-> local.kind, v |-> local.v, value |-> value,
                     fallback |-> local.fallback]}
    /\ local' = NoTraversal

\* orderEdgesAroundVertex(v) up to the loop: the range over v.Edges puts
\* the edges in the slice in any order, edges[1] is any of them; with two
\* edges or fewer the slice is returned
OrderEdgesStart(v) ==
    /\ local = NoTraversal
    /\ IF Cardinality(mesh.Vertices[v].Edges) <= 2
       THEN \E o \in IterOrders :
               /\ returned' = {[method |-> "edges", v |-> v,
                                value |-> RangeKeys(mesh.Vertices[v].Edges, o),
                                fallback |-> FALSE]}
               /\ local' = local
       ELSE \E first \in mesh.Vertices[v].Edges :
               /\ local' = [kind |-> "edges", v |-> v, ordered |-> <<first>>,
                            fallback |-> FALSE]
               /\ returned' = {}
    /\ TraversalFrame

\* what findNextEdgeInFaces can return: the edge found in a face of v that
\* contains current, for the face the range over v.Faces reaches first
NextEdgesInFaces(p, v, current, visited) ==
    {findNextEdgeInFace(p, face, current, v, visited) :
        face \in {f \in p.Vertices[v].Faces : faceContainsEdge(p, f, current)}}
    \ {Nil}

\* one iteration of the loop of orderEdgesAroundVertex
OrderEdgesNext ==
    /\ local.kind = "edges"
    /\ Len(local.ordered) < Cardinality(mesh.Vertices[local.v].Edges)
    /\ LET current == local.ordered[Len(local.ordered)]
           visited == Range(local.ordered)
           linked == NextEdgesInFaces(mesh, local.v, current, visited)
       IN  IF linked # {}
           THEN \E nextEdge \in linked :
                   local' = [local EXCEPT !.ordered = Append(@, nextEdge)]
           ELSE \E nextEdge \in mesh.Vertices[local.v].Edges \ visited :
                   local' = [local EXCEPT !.ordered = Append(@, nextEdge),
                                          !.fallback = TRUE]
    /\ UNCHANGED returned
    /\ TraversalFrame

OrderEdgesReturn ==
    /\ local.kind = "edges"
    /\ Len(local.ordered) >= Cardinality(mesh.Vertices[local.v].Edges)
    /\ TraversalReturns(local.ordered)
    /\ TraversalFrame

\* orderFacesAroundVertex(v) up to the loop
OrderFacesStart(v) ==
    /\ local = NoTraversal
    /\ IF Cardinality(mesh.Vertices[v].Faces) <= 2
       THEN \E o \in IterOrders :
               /\ returned' = {[method |-> "faces", v |-> v,
                                value |-> RangeKeys(mesh.Vertices[v].Faces, o),
                                fallback |-> FALSE]}
               /\ local' = local
       ELSE \E first \in mesh.Vertices[v].Faces :
               /\ local' = [kind |-> "faces", v |-> v, ordered |-> <<first>>,
                            fallback |-> FALSE]
               /\ returned' = {}
    /\ TraversalFrame

\* what the search over v.Edges and edge.Faces can find: a face other than
\* current, not visited, that has an edge in common with current
NextFacesInEdges(p, v, current, visited) ==
    {face \in UNION {p.Edges[edge].Faces : edge \in p.Vertices[v].Edges} :
        /\ face # current
        /\ face \notin visited
        /\ facesShareEdge(p, current, face)}

\* one iteration of the loop of orderFacesAroundVertex
OrderFacesNext ==
    /\ local.kind = "faces"
    /\ Len(local.ordered) < Cardinality(mesh.Vertices[local.v].Faces)
    /\ LET current == local.ordered[Len(local.ordered)]
           visited == Range(local.ordered)
           linked == NextFacesInEdges(mesh, local.v, current, visited)
       IN  IF linked # {}
           THEN \E nextFace \in linked :
                   local' = [local EXCEPT !.ordered = Append(@, nextFace)]
           ELSE \E nextFace \in mesh.Vertices[local.v].Faces \ visited :
                   local' = [local EXCEPT !.ordered = Append(@, nextFace),
                                          !.fallback = TRUE]
    /\ UNCHANGED returned
    /\ TraversalFrame

OrderFacesReturn ==
    /\ local.kind = "faces"
    /\ Len(local.ordered) >= Cardinality(mesh.Vertices[local.v].Faces)
    /\ TraversalReturns(local.ordered)
    /\ TraversalFrame

TraversalNext ==
    \/ \E v \in DOMAIN mesh.Vertices : OrderEdgesStart(v)
    \/ OrderEdgesNext
    \/ OrderEdgesReturn
    \/ \E v \in DOMAIN mesh.Vertices : OrderFacesStart(v)
    \/ OrderFacesNext
    \/ OrderFacesReturn

TraversalSpec == TraversalInit /\ [][TraversalNext]_vars

\* ------------------------------------------------------------ properties
NumVertices(p) == Cardinality(DOMAIN p.Vertices)
NumEdges(p) == Cardinality(DOMAIN p.Edges)
NumFaces(p) == Cardinality(DOMAIN p.Faces)
Counts(p) == <<NumVertices(p), NumEdges(p), NumFaces(p)>>

VertexDegree(p, v) == Cardinality(p.Vertices[v].Edges)
FaceDegree(p, f) == Len(p.Faces[f].Vertices)
VerticesOfDegree(p, d) == Cardinality({v \in DOMAIN p.Vertices : VertexDegree(p, v) = d})
FacesOfDegree(p, d) == Cardinality({f \in DOMAIN p.Faces : FaceDegree(p, f) = d})

EveryEdgeOnTwoFaces(p) ==
    \A e \in DOMAIN p.Edges : Cardinality(p.Edges[e].Faces) = 2

IsClosedManifold(p) ==
    /\ NumVertices(p) - NumEdges(p) + NumFaces(p) = 2
    /\ \A v \in DOMAIN p.Vertices : VertexDegree(p, v) >= 3
    /\ \A f \in DOMAIN p.Faces : FaceDegree(p, f) >= 3
    /\ EveryEdgeOnTwoFaces(p)

\* Parse accepted the notation and holds a mesh
Accepted == pc \in {"apply", "done"} /\ err = NilError /\ seed # NilPolyhedron

\* the next step of applyOperations applies the operator symbol
Applying(symbol) == pc = "apply" /\ k >= 1 /\ operations[k] = symbol

\* the operators that have been applied so far, in input order
Applied == SubSeq(operations, k + 1, Len(operations))

TypeOK ==
    /\ pc \in {"Parse", "apply", "done"}
    /\ k \in 0..Len(operations)
    /\ Accepted => NumVertices(result) >= 4

\* o1(o2(...on(p)...)) for ops = <<o1, ..., on>>
RECURSIVE RightToLeft(_, _, _, _)
RightToLeft(ops, p, o, w) ==
    IF ops = <<>> THEN p
    ELSE Apply(Head(ops), RightToLeft(Tail(ops), p, o, w), o, w)

\* C1: for an accepted notation with operator characters o1..on and seed S,
\* the mesh Parse holds once the last m operators are applied is
\* o(n-m+1)(...on(clone of S)...), so that it returns o1(o2(...on(clone of
\* S)...)); Parse("dtC") has the counts of Dual(Truncate(Cube)), (14,36,24).
C1_ParseRightToLeft ==
    Accepted =>
        /\ result = RightToLeft(Applied, Clone(seed, ord, wind), ord, wind)
        /\ (pc = "done" /\ operations = <<"d", "t">> /\ seed.Name = "Cube") =>
              /\ Counts(result) = <<14, 36, 24>>
              /\ Counts(result) =
                    Counts(Dual(Truncate(Cube(wind), ord, wind), ord, wind))

C1_Witness ==
    /\ Accepted
    /\ pc = "done"
    /\ operations = <<"d", "t">>
    /\ seed.Name = "Cube"
    /\ Counts(result) = <<14, 36, 24>>

\* C2: the result of every operator d a t k j o e g s, applied to a seed or
\* to the result of an operator, has Euler characteristic 2, every vertex
\* and every face of degree at least 3 and every edge on exactly two faces,
\* in every iteration order.
C2_OperatorResultsValid ==
    (Accepted /\ k < Len(operations)) => IsClosedManifold(result)

C2_Witness ==
    /\ Accepted
    /\ pc = "done"
    /\ Len(operations) = 2
    /\ operations[1] = "s"
    /\ ord = "desc"
    /\ wind = "mixed"
    /\ IsClosedManifold(result)

\* the string the characters of str spell
RECURSIVE StringOf(_)
StringOf(str) == IF str = <<>> THEN "" ELSE Head(str) \o StringOf(Tail(str))

SeedCounts(symbol) ==
    CASE symbol = "T" -> <<4, 6, 4>>
      [] symbol = "C" -> <<8, 12, 6>>
      [] symbol = "O" -> <<6, 12, 8>>
      [] symbol = "D" -> <<20, 30, 12>>
      [] symbol = "I" -> <<12, 30, 20>>

SeedAsRequired(p, symbol) ==
    /\ p # NilPolyhedron
    /\ Counts(p) = SeedCounts(symbol)
    /\ EveryEdgeOnTwoFaces(p)

\* C3: GetSeed returns a mesh exactly for T, C, O, D, I, and nothing for any
\* other string (the input string and each of its characters are tried);
\* the meshes have the counts T(4,6,4), C(8,12,6), O(6,12,8), D(20,30,12),
\* I(12,30,20) with every edge on exactly two faces, and so has the seed
\* the parser got from GetSeed.
C3_GetSeed ==
    /\ pc = "Parse" =>
          \A w \in Windings :
              \A s \in {StringOf(notation)} \cup {notation[i] : i \in DOMAIN notation} :
                  IF s \in {"T", "C", "O", "D", "I"}
                  THEN SeedAsRequired(GetSeed(s, w), s)
                  ELSE GetSeed(s, w) = NilPolyhedron
    /\ seed # NilPolyhedron =>
          \E s \in {"T", "C", "O", "D", "I"} : SeedAsRequired(seed, s)

C3_Witness ==
    /\ Accepted
    /\ pc = "apply"
    /\ seed.Name = "Icosahedron"
    /\ Counts(seed) = <<12, 30, 20>>
    /\ EveryEdgeOnTwoFaces(seed)

\* C4: Dual(P) has as many vertices as P has faces, as many faces as P has
\* vertices and as many edges as P, for P a seed or an operator result; and
\* dd(S) has the counts of S for every seed S.
C4_DualSwap ==
    /\ [][Applying("d") =>
            Counts(result') = <<NumFaces(result), NumEdges(result), NumVertices(result)>>]_vars
    /\ []((Accepted /\ pc = "done" /\ operations = <<"d", "d">>) =>
            Counts(result) = Counts(seed))

C4_Witness ==
    /\ Accepted
    /\ pc = "done"
    /\ operations = <<"d", "d">>
    /\ seed.Name = "Dodecahedron"
    /\ Counts(result) = <<20, 30, 12>>

\* C5: Join(S) has the counts of Dual(Ambo(S)) for every seed S, and
\* Parse("jC") has V = 14, E = 24, F = 12.
C5_JoinIsDualOfAmbo ==
    (Accepted /\ pc = "done" /\ operations = <<"j">>) =>
        /\ Counts(result) =
              Counts(Dual(Ambo(Clone(seed, ord, wind), ord, wind), ord, wind))
        /\ seed.Name = "Cube" => Counts(result) = <<14, 24, 12>>

\* C6: for every seed S with E edges, parsing oS and parsing jjS give the
\* same counts, and so do eS and aaS, gS and daS, sS and dgS: they are
\* (2E, 4E, 2E+2) for o, jj, e and aa, (E+2, 2E, E) for g and da, and
\* (E, 2E, E+2) for s and dg.
C6_CompoundAsComposition ==
    (Accepted /\ pc = "done") =>
        LET E == NumEdges(seed)
        IN  /\ operations \in {<<"o">>, <<"j", "j">>, <<"e">>, <<"a", "a">>} =>
                  Counts(result) = <<2 * E, 4 * E, 2 * E + 2>>
            /\ operations \in {<<"g">>, <<"d", "a">>} =>
                  Counts(result) = <<E + 2, 2 * E, E>>
            /\ operations \in {<<"s">>, <<"d", "g">>} =>
                  Counts(result) = <<E, 2 * E, E + 2>>

C6_Witness ==
    /\ Accepted
    /\ pc = "done"
    /\ operations = <<"d", "g">>
    /\ seed.Name = "Icosahedron"
    /\ Counts(result) = <<30, 60, 32>>

\* C7: Ambo(P) has one vertex per edge of P, one face per face and one per
\* vertex of P, and every vertex of it has degree 4, for P a seed or an
\* operator result.
C7_Ambo ==
    [][Applying("a") =>
          /\ NumVertices(result') = NumEdges(result)
          /\ NumFaces(result') = NumFaces(result) + NumVertices(result)
          /\ \A v \in DOMAIN result'.Vertices : VertexDegree(result', v) = 4]_vars

C7_Witness ==
    /\ Accepted
    /\ pc = "done"
    /\ operations = <<"a", "t">>
    /\ seed.Name = "Octahedron"
    /\ NumVertices(result) = 36
    /\ \A v \in DOMAIN result.Vertices : VertexDegree(result, v) = 4

\* C8: Kis(P) has |V(P)| + |F(P)| vertices and only triangles as faces, one
\* for every edge of every face of P (two per edge of P), for P a seed or
\* an operator result.
C8_Kis ==
    [][Applying("k") =>
          /\ NumVertices(result') = NumVertices(result) + NumFaces(result)
          /\ \A f \in DOMAIN result'.Faces : FaceDegree(result', f) = 3
          /\ NumFaces(result') = 2 * NumEdges(result)]_vars

C8_Witness ==
    /\ Accepted
    /\ pc = "done"
    /\ operations = <<"k", "a">>
    /\ seed.Name = "Cube"
    /\ Counts(result) = <<26, 72, 48>>

\* C9: for every seed S, Truncate(S) has 2|E(S)| vertices, 3|E(S)| edges and
\* |F(S)| + |V(S)| faces: for every d it has as many faces of degree d as S
\* has faces of degree d/2 and vertices of degree d, and for every vertex v
\* of S one of its faces goes through the vertices keyed (e, v) for the
\* edges e at v in edges-around-vertex order; Parse("tI") has (60,90,32).
C9_Truncate ==
    /\ [][(Applying("t") /\ k = Len(operations)) =>
            /\ Counts(result') =
                  <<2 * NumEdges(result), 3 * NumEdges(result),
                    NumFaces(result) + NumVertices(result)>>
            /\ \A d \in 3..10 :
                  FacesOfDegree(result', d) =
                      (IF d % 2 = 0 THEN FacesOfDegree(result, d \div 2) ELSE 0)
                          + VerticesOfDegree(result, d)
            /\ LET edgeVertices == createTruncatedEdgeVertices(result, ord).map
               IN  \A v \in DOMAIN result.Vertices :
                      LET around == orderEdgesAroundVertex(result, v, ord)
                          keyed == [i \in 1..Len(around) |->
                                       edgeVertices[EdgeVertexKey(around[i], v)]]
                      IN  \E f \in DOMAIN result'.Faces :
                             result'.Faces[f].Vertices \in {keyed, Reverse(keyed)}]_vars
    /\ []((Accepted /\ pc = "done" /\ operations = <<"t">>
                 /\ seed.Name = "Icosahedron") =>
            Counts(result) = <<60, 90, 32>>)

C9_Witness ==
    /\ Accepted
    /\ pc = "done"
    /\ operations = <<"t">>
    /\ seed.Name = "Icosahedron"
    /\ Counts(result) = <<60, 90, 32>>
    /\ FacesOfDegree(result, 6) = 20
    /\ FacesOfDegree(result, 5) = 12

\* C10: the name of op(P) is the symbol of op followed by the name of P for
\* each of d a t k j o e g s, so that the mesh Parse holds is named by the
\* symbols applied so far followed by the seed's name ("dCube", "jCube").
C10_NameIsSymbolThenName ==
    Accepted => result.Name = StringOf(Applied) \o seed.Name

\* ------------------------------------------------------ parser, errors
\* the static error an error value wraps
ErrKind(e) == IF e = NilError THEN "nil" ELSE e.kind

\* a seed character stands before position i
SeedBefore(str, i) == \E j \in 1..(i - 1) : str[j] \in SeedSymbols

\* positions of the characters that are neither an operator nor, with no
\* seed before them, a seed
Unmatched(str) ==
    {i \in 1..Len(str) : /\ str[i] \notin OperationSymbols
                         /\ (SeedBefore(str, i) \/ str[i] \notin SeedSymbols)}

FirstUnmatched(str) ==
    CHOOSE i \in Unmatched(str) : \A j \in Unmatched(str) : i <= j

\* C11: for every input, the first character that is neither an operator
\* nor (with no seed found yet) a seed makes Parse fail, with the
\* unknown-seed error when it is the final character of the trimmed input
\* and no seed was found, and with the unknown-operation error otherwise.
C11_UnknownCharacter ==
    [][(pc = "Parse" /\ Unmatched(TrimSpace(notation)) # {}) =>
          LET t == TrimSpace(notation)
              i == FirstUnmatched(t)
          IN  /\ result' = NilPolyhedron
              /\ ErrKind(err') =
                    IF i = Len(t) /\ ~SeedBefore(t, i)
                    THEN "ErrUnknownSeedPolyhedron"
                    ELSE "ErrUnknownOperation"]_vars

\* SEED OP* or OP* SEED
MatchesGrammar(str) ==
    /\ Len(str) >= 1
    /\ \/ /\ str[1] \in SeedSymbols
          /\ \A i \in 2..Len(str) : str[i] \in OperationSymbols
       \/ /\ str[Len(str)] \in SeedSymbols
          /\ \A i \in 1..(Len(str) - 1) : str[i] \in OperationSymbols

\* C12: Parse returns a mesh exactly when the trimmed input is one seed
\* character, first or last, with operator characters everywhere else.
C12_GrammarOnly ==
    [][pc = "Parse" =>
          ((err' = NilError /\ result' # NilPolyhedron)
              <=> MatchesGrammar(TrimSpace(notation)))]_vars

\* C13: Parse never returns a mesh together with an error; a blank input
\* gives the empty-notation error, a non-blank input of operator
\* characters only gives the no-seed error, and every error comes with a
\* nil mesh.
C13_MeshOrError ==
    /\ [][pc = "Parse" =>
            /\ (err' = NilError) # (result' = NilPolyhedron)
            /\ (\A i \in 1..Len(notation) : notation[i] = " ")
                  => ErrKind(err') = "ErrEmptyNotation"
            /\ (notation # <<>>
                /\ \A i \in 1..Len(notation) : notation[i] \in OperationSymbols)
                  => ErrKind(err') = "ErrNoSeedPolyhedron"]_vars
    /\ [](err # NilError => result = NilPolyhedron)

C13_Witness ==
    /\ pc = "done"
    /\ ErrKind(err) = "ErrNoSeedPolyhedron"
    /\ operations = <<"d", "t">>
    /\ result = NilPolyhedron


\* ----------------------------------------------------- the shared mesh
\* every reference between a face and its vertices and edges, and between
\* a vertex and its edges, is recorded on both sides, by entities of p
Symmetric(p) ==
    /\ \A f \in DOMAIN p.Faces :
          /\ \A v \in Range(p.Faces[f].Vertices) :
                v \in DOMAIN p.Vertices /\ f \in p.Vertices[v].Faces
          /\ \A e \in Range(p.Faces[f].Edges) :
                e \in DOMAIN p.Edges /\ f \in p.Edges[e].Faces
    /\ \A v \in DOMAIN p.Vertices :
          /\ \A f \in p.Vertices[v].Faces :
                f \in DOMAIN p.Faces /\ v \in Range(p.Faces[f].Vertices)
          /\ \A e \in p.Vertices[v].Edges :
                e \in DOMAIN p.Edges /\ v \in {p.Edges[e].V1, p.Edges[e].V2}
    /\ \A e \in DOMAIN p.Edges :
          \A f \in p.Edges[e].Faces :
                f \in DOMAIN p.Faces /\ e \in Range(p.Faces[f].Edges)

\* the edges of p that join a and b
EdgesBetween(p, a, b) ==
    {e \in DOMAIN p.Edges : {p.Edges[e].V1, p.Edges[e].V2} = {a, b}}

\* C14: under every interleaving of AddVertex, AddEdge, AddFace and the
\* Remove methods, no two entities of the mesh carry the same identifier,
\* an identifier that was issued once is never issued again, also after
\* its entity was removed, and N AddVertex calls on a new mesh leave N
\* vertices with N distinct identifiers.
C14_IdentifiersNeverReused ==
    /\ [][(AllIDs(mesh') \ AllIDs(mesh)) \cap issued = {}]_vars
    /\ [](/\ DOMAIN mesh.Vertices \cap DOMAIN mesh.Edges = {}
          /\ DOMAIN mesh.Vertices \cap DOMAIN mesh.Faces = {}
          /\ DOMAIN mesh.Edges \cap DOMAIN mesh.Faces = {}
          /\ AllIDs(mesh) \subseteq issued
          /\ (mesh.Name = "mesh" /\ calls.others = 0)
                => Cardinality(DOMAIN mesh.Vertices) = calls.AddVertex)

C14_Witness ==
    /\ pc = "mesh"
    /\ calls.AddVertex >= 2
    /\ \E old \in issued \ AllIDs(mesh) :
          \E new \in DOMAIN mesh.Vertices : new > old
    /\ \E t \in Threads : call[t] # "idle"

\* C15: AddEdge(a, b) and AddEdge(b, a), in any number and interleaving,
\* make one edge, which every call returns and which is once in the edges
\* of a and of b; an AddFace over the pair afterwards takes that edge.
C15_AddEdgeIdempotent ==
    /\ [][\A t \in Threads : \A a, b \in DOMAIN mesh.Vertices :
            (a # b /\ AddEdgeCall(t, a, b)) =>
                LET e == Find(mesh'.edgeLookup, a, b)
                IN  /\ e # Nil
                    /\ e = Find(mesh'.edgeLookup, b, a)
                    /\ EdgesBetween(mesh', a, b) = {e}
                    /\ EdgesBetween(mesh, a, b) # {}
                          => (mesh' = mesh /\ EdgesBetween(mesh, a, b) = {e})
                    /\ e \in mesh'.Vertices[a].Edges
                    /\ e \in mesh'.Vertices[b].Edges]_vars
    /\ [][\A t \in Threads : \A vertices \in FaceArguments(mesh) :
            \A w \in Windings :
            AddFaceCall(t, vertices, w) =>
                \A i \in 1..Len(vertices) :
                    LET a == vertices[i]
                        b == vertices[(i % Len(vertices)) + 1]
                    IN  EdgesBetween(mesh, a, b) # {} =>
                          /\ EdgesBetween(mesh', a, b) = EdgesBetween(mesh, a, b)
                          /\ \E f \in DOMAIN mesh'.Faces \ DOMAIN mesh.Faces :
                                EdgesBetween(mesh, a, b)
                                    \subseteq Range(mesh'.Faces[f].Edges)]_vars
    /\ [](\A a, b \in DOMAIN mesh.Vertices :
              Cardinality(EdgesBetween(mesh, a, b)) <= 1)

C15_Witness ==
    /\ pc = "mesh"
    /\ DOMAIN mesh.Vertices = {1, 2}
    /\ DOMAIN mesh.Edges = {3}
    /\ DOMAIN mesh.Faces = {4}
    /\ mesh.Faces[4].Edges = <<3, 3>>
    /\ mesh.Vertices[1].Edges = {3}
    /\ mesh.Vertices[2].Edges = {3}

\* C16: in every state reached by AddVertex, AddEdge, AddFace and the
\* Remove methods, each applied to entities of the mesh, the references
\* between faces, vertices and edges are recorded on both sides.
C16_CrossReferencesSymmetric == pc = "mesh" => Symmetric(mesh)

\* C17: the clone of a mesh built with AddVertex, AddEdge and AddFace has
\* the name and the numbers of vertices, edges and faces of its source.
C17_CloneIsDeepCopy ==
    (pc = "mesh" /\ copy # NilPolyhedron /\ AllIDs(mesh) = issued) =>
        /\ copy.Name = mesh.Name
        /\ Counts(copy) = Counts(mesh)

\* C18: RemoveVertex(v) on a mesh with symmetric references removes v,
\* the edges ending in v and the faces through v, leaves no pair-index
\* entry for and no reference to a removed entity, and keeps everything
\* else; on a tetrahedron it leaves 3 vertices, 3 edges and 1 face.
C18_RemoveVertexCascades ==
    [][\A t \in Threads : \A v \in DOMAIN mesh.Vertices : \A o \in IterOrders :
        (Symmetric(mesh) /\ RemoveVertexCall(t, v, o)) =>
            LET goneEdges == {e \in DOMAIN mesh.Edges :
                                 v \in {mesh.Edges[e].V1, mesh.Edges[e].V2}}
                goneFaces == {f \in DOMAIN mesh.Faces :
                                 v \in Range(mesh.Faces[f].Vertices)}
            IN  /\ DOMAIN mesh'.Vertices = DOMAIN mesh.Vertices \ {v}
                /\ DOMAIN mesh'.Edges = DOMAIN mesh.Edges \ goneEdges
                /\ DOMAIN mesh'.Faces = DOMAIN mesh.Faces \ goneFaces
                /\ \A key \in DOMAIN mesh'.edgeLookup :
                      mesh'.edgeLookup[key] \in DOMAIN mesh'.Edges
                /\ \A u \in DOMAIN mesh'.Vertices :
                      /\ mesh'.Vertices[u].Edges \cap goneEdges = {}
                      /\ mesh'.Vertices[u].Faces \cap goneFaces = {}
                /\ \A e \in DOMAIN mesh'.Edges :
                      /\ v \notin {mesh'.Edges[e].V1, mesh'.Edges[e].V2}
                      /\ mesh'.Edges[e].Faces \cap goneFaces = {}
                /\ \A f \in DOMAIN mesh'.Faces :
                      /\ v \notin Range(mesh'.Faces[f].Vertices)
                      /\ Range(mesh'.Faces[f].Edges) \cap goneEdges = {}
                /\ Counts(mesh) = <<4, 6, 4>> => Counts(mesh') = <<3, 3, 1>>]_vars

C18_Witness ==
    /\ pc = "mesh"
    /\ mesh.Name = "Tetrahedron"
    /\ Counts(mesh) = <<3, 3, 1>>
    /\ Symmetric(mesh)


\* ------------------------------------------- the lock and the centroid
\* every vertex of the snapshot has had the same number of writes
Whole(positions) ==
    \A u, v \in DOMAIN positions : Len(positions[u]) = Len(positions[v])

\* the positions once Normalize has run alone on positions
NormalizeAlone(positions, o) ==
    IF DOMAIN positions = {} THEN positions
    ELSE LET centroid == calculateCentroidUnsafe(NilVector, positions, o).value
             translated == [v \in DOMAIN positions |->
                               Append(positions[v], [op |-> "Sub", by |-> centroid])]
         IN  [v \in DOMAIN positions |->
                 Append(translated[v], [op |-> "Scale", by |-> [max |-> translated]])]

\* C19: Normalize runs under the mesh's lock: a method holding the read
\* lock never sees some positions moved by a Normalize and others not,
\* and two concurrent Normalize calls end as two calls in sequence do.
C19_NormalizeUnderLock ==
    pc = "geometry" =>
        /\ \A positions \in observed : Whole(positions)
        /\ (\A t \in Threads : call[t] = "idle" /\ local[t].caller = "Normalize")
              => \E o1, o2 \in IterOrders :
                    position = NormalizeAlone(
                        NormalizeAlone([v \in DOMAIN position |-> <<>>], o1), o2)

\* no Normalize call is running and none has moved a vertex
NotMutated ==
    /\ \A t \in Threads : local[t].caller # "Normalize"
    /\ \A v \in DOMAIN position : position[v] = <<>>

\* C20: while the mesh is not mutated, every Centroid call returns the
\* same value, the one that one caller computed and stored under the
\* write lock.
C20_CentroidIdentical ==
    (pc = "geometry" /\ NotMutated) =>
        /\ Cardinality(returned) <= 1
        /\ cached # NilVector => returned \subseteq {cached}
        /\ DOMAIN position # {} /\ returned # {} => returned = {cached}

C20_Witness ==
    /\ pc = "geometry"
    /\ NotMutated
    /\ \A t \in Threads : local[t].caller = "Centroid"
    /\ \E t \in Threads : call[t] = "Centroid.miss"
    /\ cached # NilVector
    /\ returned = {cached}

\* faces f and g have a common edge that ends in v
SharedEdgeAt(p, v, f, g) ==
    \E e \in p.Vertices[v].Edges :
        InSeq(p.Faces[f].Edges, e) /\ InSeq(p.Faces[g].Edges, e)

\* the faces at v that can be reached from those in S over such edges
RECURSIVE Fan(_, _, _)
Fan(p, v, S) ==
    LET more == {g \in p.Vertices[v].Faces \ S :
                    \E f \in S : SharedEdgeAt(p, v, f, g)}
    IN  IF more = {} THEN S ELSE Fan(p, v, S \cup more)

\* the faces at v form one cycle of edge-adjacent faces
FormSingleCycle(p, v) ==
    LET F == p.Vertices[v].Faces
    IN  /\ F # {}
        /\ F \subseteq DOMAIN p.Faces
        /\ \A f \in F :
               Cardinality({g \in F \ {f} : SharedEdgeAt(p, v, f, g)}) = 2
        /\ Fan(p, v, {CHOOSE f \in F : TRUE}) = F

\* C21: ValidateManifold returns a manifold error when an edge lies on
\* more than two faces or the faces at some vertex do not form a single
\* cycle, and no error when every edge lies on one or two faces and the
\* faces at every vertex form a single cycle.
C21_ValidateManifold ==
    pc = "topology" =>
        \A a \in returned :
            a.method = "ValidateManifold" =>
                /\ (\/ \E e \in DOMAIN mesh.Edges :
                          Cardinality(mesh.Edges[e].Faces) > 2
                    \/ \E v \in DOMAIN mesh.Vertices : ~FormSingleCycle(mesh, v))
                        => a.value = ValidationError("Manifold")
                /\ (/\ \A e \in DOMAIN mesh.Edges :
                          Cardinality(mesh.Edges[e].Faces) \in {1, 2}
                    /\ \A v \in DOMAIN mesh.Vertices : FormSingleCycle(mesh, v))
                        => a.value = NilError

\* the meshes with V - E + F = 2, every vertex on three edges or more,
\* every face of three vertices or more, every edge on one or two faces
TopologicallyValid(p) ==
    /\ NumVertices(p) - NumEdges(p) + NumFaces(p) = 2
    /\ \A v \in DOMAIN p.Vertices : Cardinality(p.Vertices[v].Edges) >= 3
    /\ \A f \in DOMAIN p.Faces : Len(p.Faces[f].Vertices) >= 3
    /\ \A e \in DOMAIN p.Edges : Cardinality(p.Edges[e].Faces) \in {1, 2}

\* C30: IsValid returns true exactly when ValidateTopology returns no
\* error, and both accept exactly the topologically valid meshes.
C30_IsValidIffValidateTopology ==
    pc = "topology" =>
        \A a \in returned :
            /\ a.method = "IsValid" =>
                  /\ a.value <=> (ValidateTopology(mesh) = NilError)
                  /\ a.value <=> TopologicallyValid(mesh)
            /\ a.method = "ValidateTopology" =>
                  /\ (a.value = NilError) <=> IsValid(mesh)
                  /\ (a.value = NilError) <=> TopologicallyValid(mesh)

C30_Witness ==
    /\ pc = "topology"
    /\ returned = {[method |-> "IsValid", value |-> TRUE]}
    /\ ValidateTopology(mesh) = NilError

\* face f has as many edges as vertices, and its i-th edge is in the mesh
\* and joins its i-th vertex and the next one, the first after the last
FaceEdgesParallel(p, f) ==
    LET vs == p.Faces[f].Vertices
        es == p.Faces[f].Edges
    IN  /\ Len(es) = Len(vs)
        /\ \A i \in 1..Len(vs) :
               /\ es[i] \in DOMAIN p.Edges
               /\ {p.Edges[es[i]].V1, p.Edges[es[i]].V2}
                      = {vs[i], vs[(i % Len(vs)) + 1]}

\* C23: in every state reached by adds and removals every face has an
\* edge sequence parallel to its vertex sequence.
C23_FaceEdgesParallel ==
    pc = "topology" => \A f \in DOMAIN mesh.Faces : FaceEdgesParallel(mesh, f)

\* the pair index holds the edges of the mesh, each under the key of its
\* endpoints, and nothing else
IndexAgrees(p) ==
    /\ \A key \in DOMAIN p.edgeLookup :
           /\ p.edgeLookup[key] \in DOMAIN p.Edges
           /\ makeEdgeKey(p.Edges[p.edgeLookup[key]].V1,
                          p.Edges[p.edgeLookup[key]].V2) = key
    /\ \A e \in DOMAIN p.Edges :
           /\ makeEdgeKey(p.Edges[e].V1, p.Edges[e].V2) \in DOMAIN p.edgeLookup
           /\ p.edgeLookup[makeEdgeKey(p.Edges[e].V1, p.Edges[e].V2)] = e

\* edge e, which was on the faces in faces, is nowhere in p
EdgeGone(p, e, faces) ==
    /\ e \notin DOMAIN p.Edges
    /\ \A v \in DOMAIN p.Vertices : e \notin p.Vertices[v].Edges
    /\ \A key \in DOMAIN p.edgeLookup : p.edgeLookup[key] # e
    /\ \A f \in faces \cap DOMAIN p.Faces : ~InSeq(p.Faces[f].Edges, e)

C26_IndexAgreesAlways == [](pc = "topology" => IndexAgrees(mesh))

C26_RemoveEdgeLeavesNothing ==
    [][\A e \in DOMAIN mesh.Edges :
           DoRemoveEdge(e) => EdgeGone(mesh', e, mesh.Edges[e].Faces)]_vars

C26_AddEdgeAfterRemovalIsFresh ==
    [][\A v1, v2 \in DOMAIN mesh.Vertices :
           (DoAddEdge(v1, v2) /\ Find(mesh.edgeLookup, v1, v2) = Nil) =>
               /\ Find(mesh'.edgeLookup, v1, v2) \notin issued
               /\ Find(mesh'.edgeLookup, v1, v2) \in DOMAIN mesh'.Edges]_vars

\* C26: the pair index and the edge collection agree in every state;
\* RemoveEdge(e) leaves e at neither endpoint, in no incident face's edge
\* sequence, not in the index and not in the mesh; AddEdge on a pair
\* without an edge creates an edge with an identifier never issued before.
C26_PairIndexAgrees ==
    /\ C26_IndexAgreesAlways
    /\ C26_RemoveEdgeLeavesNothing
    /\ C26_AddEdgeAfterRemovalIsFresh

\* C27: every edge stored in the mesh has two distinct endpoints, whatever
\* the arguments of AddVertex, AddEdge and AddFace were.
C27_EndpointsDiffer ==
    pc = "topology" =>
        \A e \in DOMAIN mesh.Edges : mesh.Edges[e].V1 # mesh.Edges[e].V2

\* q is p without face f: f is in no collection and no face set, and the
\* vertices, the edges, the pair index, the edge sets and the other faces
\* are those of p
OnlyFaceRemoved(p, q, f) ==
    /\ DOMAIN q.Faces = DOMAIN p.Faces \ {f}
    /\ \A g \in DOMAIN q.Faces : q.Faces[g] = p.Faces[g]
    /\ DOMAIN q.Vertices = DOMAIN p.Vertices
    /\ \A v \in DOMAIN p.Vertices :
           /\ q.Vertices[v].Edges = p.Vertices[v].Edges
           /\ q.Vertices[v].Faces = p.Vertices[v].Faces \ {f}
    /\ DOMAIN q.Edges = DOMAIN p.Edges
    /\ \A e \in DOMAIN p.Edges :
           /\ q.Edges[e].V1 = p.Edges[e].V1
           /\ q.Edges[e].V2 = p.Edges[e].V2
           /\ q.Edges[e].Faces = p.Edges[e].Faces \ {f}
    /\ q.edgeLookup = p.edgeLookup
    /\ q.nextID = p.nextID
    /\ q.Name = p.Name

\* C28: RemoveFace(f) takes f out of the face collection and out of the
\* face sets of its vertices and edges and changes nothing else, also when
\* it leaves an edge or a vertex on no face.
C28_RemoveFaceFrame ==
    [][\A f \in DOMAIN mesh.Faces :
           DoRemoveFace(f) => OnlyFaceRemoved(mesh, mesh', f)]_vars

\* two faces of the tetrahedron were removed and their common edge is on
\* no face
C28_Witness ==
    /\ pc = "topology"
    /\ mesh.Name = "Tetrahedron"
    /\ calls.others = 2
    /\ NumVertices(mesh) = 4 /\ NumEdges(mesh) = 6 /\ NumFaces(mesh) = 2
    /\ \E e \in DOMAIN mesh.Edges : mesh.Edges[e].Faces = {}

\* seq is a cyclic walk: each element of S once, and each element linked
\* to the next one, the last to the first
CyclicWalk(seq, S, Linked(_, _)) ==
    /\ Len(seq) = Cardinality(S)
    /\ Range(seq) = S
    /\ \A i \in 1..Len(seq) : Linked(seq[i], seq[(i % Len(seq)) + 1])

\* C24: around every vertex of a seed, for every iteration order, the
\* edge traversal returns each incident edge once with consecutive edges
\* on a common face at the vertex, the face traversal returns each
\* incident face once with consecutive faces sharing an edge, and neither
\* takes the fallback.
C24_TraversalsCyclic ==
    pc = "traversal" =>
        /\ ~local.fallback
        /\ \A a \in returned :
              /\ ~a.fallback
              /\ a.method = "edges" =>
                    CyclicWalk(a.value, mesh.Vertices[a.v].Edges,
                        LAMBDA e1, e2 :
                            \E f \in mesh.Vertices[a.v].Faces :
                                /\ faceContainsEdge(mesh, f, e1)
                                /\ faceContainsEdge(mesh, f, e2))
              /\ a.method = "faces" =>
                    CyclicWalk(a.value, mesh.Vertices[a.v].Faces,
                        LAMBDA f1, f2 : facesShareEdge(mesh, f1, f2))

\* both traversals have returned around a vertex of degree five
C24_Witness ==
    /\ pc = "traversal"
    /\ \E a \in returned :
          /\ a.method = "faces"
          /\ Len(a.value) = 5
          /\ Cardinality(mesh.Vertices[a.v].Edges) = 5

\* ---------------------------------------------------------------- C22
\* thread t takes a step inside the call it made of Normalize
NormalizeStep(t) ==
    /\ local[t].caller = "Normalize"
    /\ call[t] # "idle"
    /\ call'[t] # call[t] \/ local'[t] # local[t]

\* no other thread has called a method of the mesh
Alone(t) ==
    \A u \in Threads \ {t} : call[u] = "idle" /\ local[u].calls = 0

NoFaceCached(faces) ==
    \A f \in DOMAIN faces :
        /\ faces[f].cachedNormal = NilVector
        /\ faces[f].cachedCentroid = NilVector
        /\ faces[f].cachedArea = NilVector

\* C22: no step of Normalize changes the vertices, edges and faces of the
\* mesh, its pair index or an incidence relation, and when a Normalize
\* that no other call ran beside returns, the mesh's cachedCentroid and
\* the cachedNormal, cachedCentroid and cachedArea of every face are nil.
C22_NormalizeFrame ==
    [][\A t \in Threads :
          NormalizeStep(t) =>
              /\ mesh' = mesh
              /\ DOMAIN position' = DOMAIN position
              /\ DOMAIN faceState' = DOMAIN faceState
              /\ (Alone(t) /\ call'[t] = "idle") =>
                    /\ cached' = NilVector
                    /\ NoFaceCached(faceState')]_vars

\* a Normalize that no other call ran beside has moved every vertex,
\* has emptied the mesh's cache, and holds the lock of the last face,
\* whose cached properties were filled before the call
C22_Witness ==
    /\ pc = "geometry"
    /\ \E t \in Threads :
          /\ local[t].caller = "Normalize"
          /\ call[t] = "Normalize.face.locked"
          /\ Alone(t)
          /\ Len(local[t].todo) = 1
          /\ Head(local[t].todo) \in DOMAIN faceState
          /\ faceState[Head(local[t].todo)].cachedNormal # NilVector
          /\ faceState[Head(local[t].todo)].cachedArea # NilVector
          /\ cached = NilVector
          /\ local[t].centroid # ZeroVector
          /\ \A v \in DOMAIN position : Len(position[v]) = 2

\* ---------------------------------------------------------------- C25
\* value is what calculateCentroidUnsafe computes from the positions
Fresh(value, positions) ==
    IF DOMAIN positions = {} THEN value = ZeroVector
    ELSE /\ value # ZeroVector
         /\ value # NilVector
         /\ {value.sum[i][1] : i \in 1..Len(value.sum)} = DOMAIN positions
         /\ \A i \in 1..Len(value.sum) :
               /\ value.sum[i][1] \in DOMAIN positions
               /\ positions[value.sum[i][1]] = value.sum[i][2]

\* a step that adds, removes or moves a vertex is taken under the
\* mesh's write lock and leaves the mesh's cache empty
C25_InvalidatedUnderLock ==
    [][position' # position => mu.writer # 0 /\ cached' = NilVector]_vars

\* once every call has returned, a cache that is not empty holds the mean
\* of the current positions
C25_QuiescentCacheFresh ==
    (pc = "geometry" /\ \A t \in Threads : call[t] = "idle") =>
        (cached = NilVector \/ Fresh(cached, position))

\* Centroid returns the cachedCentroid it finds, and what it computes from
\* the current positions if it finds none: the cachedCentroid it returns
\* is the mean of the current positions
C25_CentroidReturnsFresh ==
    [][\A t \in Threads :
          (/\ local[t].caller = "Centroid"
           /\ call[t] \in {"Centroid.cache", "Centroid.locked"}
           /\ call'[t] = "idle"
           /\ cached # NilVector)
              => Fresh(cached, position)]_vars

\* C25: under any interleaving of AddVertex, RemoveVertex, Normalize,
\* Centroid and ValidateWinding calls the mesh's cache is invalidated inside
\* the write-locked region of every mutation, a cache that is not empty
\* once all calls have returned is the mean of the current positions, and
\* Centroid never returns a value computed from positions that have
\* changed since.
C25_CacheFollowsPositions ==
    /\ C25_InvalidatedUnderLock
    /\ []C25_QuiescentCacheFresh
    /\ C25_CentroidReturnsFresh

\* ---------------------------------------------------------------- C29
HoldsMeshLock(t) == mu.writer = t \/ t \in mu.readers

HoldsFaceLock(t) ==
    \E f \in DOMAIN faceState :
        faceState[f].mu.writer = t \/ t \in faceState[f].mu.readers

\* thread t is at a p.mu.Lock() or p.mu.RLock() it has yet to pass
AtMeshLock(t) ==
    call[t] \in {"Lock", "RLock", "Centroid", "Centroid.miss", "Clone"}

\* a thread that is about to acquire the mesh's lock holds neither that
\* lock nor the lock of a face
C29_LockDiscipline ==
    pc = "geometry" =>
        \A t \in Threads : AtMeshLock(t) => ~HoldsMeshLock(t) /\ ~HoldsFaceLock(t)

\* every call a thread has made returns
C29_EveryCallReturns ==
    \A t \in Threads : (call[t] # "idle") ~> (call[t] = "idle")

\* C29: no method acquires the mesh's lock while it holds that lock or the
\* lock of a face, and under any interleaving of concurrent calls of the
\* mesh's methods, with fair scheduling, every call eventually returns.
C29_NoDeadlock ==
    /\ []C29_LockDiscipline
    /\ C29_EveryCallReturns

====
